---- MODULE Spec2Model ----
(***************************************************************************)
(* A model of the chilly scene pipeline: the tile-neighbour frame table    *)
(* and the solidifier (src/src/solidify.rs), the colour parser             *)
(* (src/src/database/structures.rs), and the scene parser with its         *)
(* argument kit (src/src/parser/mod.rs, src/src/arguments/).               *)
(*                                                                         *)
(* Every stage is a pure function of its input.  Each stage has its own    *)
(* specification: Init draws the stage's input from a bounded set, and the *)
(* stage's action applies the function and stores what it returned.        *)
(***************************************************************************)
EXTENDS Integers, Sequences, FiniteSets, TLC

VARIABLES
    pc,                 \* "ready" before the stage has run, "done" after
    mask,               \* TileNeighbors bits handed to into_frames
    frames,             \* what into_frames returned (or that it panicked)
    raw,                \* the RawScene handed to solidify
    db,                 \* the Database handed to solidify
    default,            \* the TileDefault handed to solidify
    easter_egg_tiles,   \* the easter egg pool handed to solidify
    skeletal,           \* what solidify returned (or that it panicked)
    text,               \* the string handed to Color::from_str
    color,              \* what Color::from_str returned
    scene,              \* the pairs of the scene text handed to parse
    parsed,             \* what parse returned
    call,               \* the arguments handed to an Argument or a Variant method
    returned,           \* what that method returned
    skel_scene,         \* the SkeletalScene handed to render
    assets,             \* the files under asset_path: what opening each path gives
    cache,              \* the cache handed to render: None, or a map from paths to images
    rendered,           \* what render returned (or that it panicked)
    trace               \* the cache lookups and file opens made so far, in order

vars == <<pc, mask, frames, raw, db, default, easter_egg_tiles, skeletal,
          text, color, scene, parsed, call, returned,
          skel_scene, assets, cache, rendered, trace>>

(***************************************************************************)
(* Option<T>, Result<T, E> and a panic.                                    *)
(***************************************************************************)
None == <<>>
Some(v) == <<v>>
is_some(o) == o # <<>>
unwrap(o) == o[1]

Returned(v) == [panicked |-> FALSE, value |-> v]
Panicked == [panicked |-> TRUE]

(***************************************************************************)
(* u8 bit operations.                                                      *)
(***************************************************************************)
U8 == 0..255

RECURSIVE BitAndFrom(_, _, _)
BitAndFrom(a, b, w) ==
    IF w > 128 THEN 0
    ELSE ((a \div w) % 2) * ((b \div w) % 2) * w + BitAndFrom(a, b, w * 2)

BitAnd(a, b) == BitAndFrom(a, b, 1)
BitOr(a, b) == a + b - BitAnd(a, b)
BitNot(a) == 255 - a

(***************************************************************************)
(* bitflags! struct TileNeighbors: u8                                      *)
(***************************************************************************)
RIGHT == 128
UP == 64
LEFT == 32
DOWN == 16
UPRIGHT == 8
UPLEFT == 4
DOWNLEFT == 2
DOWNRIGHT == 1
CARDINAL == BitOr(BitOr(UP, LEFT), BitOr(DOWN, RIGHT))

contains(self, other) == BitAnd(self, other) = other
remove(self, other) == BitAnd(self, BitNot(other))
intersection(self, other) == BitAnd(self, other)

\* The match arms of into_frame: FrameTable[i] is the mask of frame i - 1.
FrameTable ==
    << 0, 128, 64, 192, 32, 160, 96, 224,
       16, 144, 80, 208, 48, 176, 112, 240,
       200, 232, 216, 248, 100, 228, 116, 244,
       236, 252, 50, 178, 114, 242, 250, 118,
       246, 254, 145, 209, 177, 241, 217, 249,
       245, 253, 179, 243, 251, 247, 255 >>

\* into_frame, were it the bitfield of the cardinal directions alone.
into_frame_cardinal(self) ==
    IF self % 16 = 0
    THEN Some(((self \div 128) % 2) + 2 * ((self \div 64) % 2)
              + 4 * ((self \div 32) % 2) + 8 * ((self \div 16) % 2))
    ELSE None

into_frame(self) ==
    IF \E i \in 1..Len(FrameTable) : FrameTable[i] = self
    THEN Some((CHOOSE i \in 1..Len(FrameTable) : FrameTable[i] = self) - 1)
    ELSE None

\* into_frames as written: each guard tests contains(RIGHT & UP), the
\* intersection of two distinct flags.
into_frames(self) ==
    LET s1 == IF ~contains(self, BitAnd(RIGHT, UP)) THEN remove(self, UPRIGHT) ELSE self
        s2 == IF ~contains(s1, BitAnd(RIGHT, DOWN)) THEN remove(s1, DOWNRIGHT) ELSE s1
        s3 == IF ~contains(s2, BitAnd(LEFT, DOWN)) THEN remove(s2, DOWNLEFT) ELSE s2
        s4 == IF ~contains(s3, BitAnd(LEFT, UP)) THEN remove(s3, UPLEFT) ELSE s3
        regular == into_frame(s4)
        fallback == into_frame(intersection(s4, CARDINAL))
    IN  IF ~is_some(regular) THEN Panicked         \* expect("we handled the other cases above")
        ELSE IF ~is_some(fallback) THEN Panicked   \* expect("cardinal directions should always be valid")
        ELSE Returned(<<unwrap(regular), unwrap(fallback)>>)

(***************************************************************************)
(* Positions, tiles and scenes (src/src/structures.rs,                     *)
(* src/src/parser/structures.rs).                                          *)
(***************************************************************************)
Position(x, y, z, t) == [x |-> x, y |-> y, z |-> z, t |-> t]

RawTile(name, tag, variants, span) ==
    [name |-> name, tag |-> tag, variants |-> variants, span |-> span]

ObjectMap(width, height, length, objects) ==
    [width |-> width, height |-> height, length |-> length, objects |-> objects]

\* A variant value: its canonical name and its parsed arguments.
Variant(name, args) == [name |-> name, args |-> args]

\* usize::checked_add_signed on a coordinate that never nears usize::MAX.
checked_add_signed(n, d) == IF n + d < 0 THEN None ELSE Some(n + d)

(***************************************************************************)
(* RawScene::solidify                                                      *)
(***************************************************************************)
ANIM_RIGHT == 0
ANIM_UP == 8
ANIM_LEFT == 16
ANIM_DOWN == 24

strip_prefix(s, prefix) ==
    IF Len(s) >= Len(prefix) /\ SubSeq(s, 1, Len(prefix)) = prefix
    THEN Some(SubSeq(s, Len(prefix) + 1, Len(s)))
    ELSE None

unwrap_or(o, d) == IF is_some(o) THEN unwrap(o) ELSE d

\* The match, were it to look at the tag alone.
canonical_name_by_tag(tag, mode, name) ==
    IF tag = Some("Text") THEN "text_" \o name
    ELSE IF tag = Some("Glyph") THEN "glyph_" \o name
    ELSE name

\* The match on (tile.tag, &default) that builds name_map.
canonical_name(tag, mode, name) ==
    IF tag = Some("Text") /\ mode = "Text"
        THEN unwrap_or(strip_prefix(name, "text_"), name)
    ELSE IF tag = Some("Text") \/ (tag = None /\ mode = "Text")
        THEN "text_" \o name
    ELSE IF tag = Some("Glyph") /\ mode = "Glyph"
        THEN unwrap_or(strip_prefix(name, "glyph_"), name)
    ELSE IF tag = Some("Glyph") \/ (tag = None /\ mode = "Glyph")
        THEN "glyph_" \o name
    ELSE name

\* The match on TilingDirection inside the Tiling arm.
direction_bit(direction) ==
    CASE direction = "Up" -> UP
      [] direction = "Down" -> DOWN
      [] direction = "Left" -> LEFT
      [] direction = "Right" -> RIGHT
      [] direction = "UpRight" -> UPRIGHT
      [] direction = "UpLeft" -> UPLEFT
      [] direction = "DownLeft" -> DOWNLEFT
      [] direction = "DownRight" -> DOWNRIGHT

RECURSIVE tiling_bits(_, _)
tiling_bits(directions, i) ==
    IF i > Len(directions) THEN 0
    ELSE BitOr(direction_bit(directions[i]), tiling_bits(directions, i + 1))

\* u8 `frame += cycle`: a build with overflow checks panics on overflow, a
\* build without them wraps.
add_u8(frame, cycle, overflow_checks) ==
    IF frame + cycle > 255
    THEN IF overflow_checks THEN Panicked ELSE Returned((frame + cycle) % 256)
    ELSE Returned(frame + cycle)

\* u8 subtraction, were it to stop at zero.
saturating_sub(a, b) == IF a < b THEN 0 ELSE a - b

wrapping_sub(a, b) == (a - b) % 256

\* The filter closure, were it to put a kept variant before the ones kept
\* so far.
filter_variant_prepends(acc, variant, overflow_checks) ==
    LET frame == unwrap_or(acc.anim_frame, <<0, 0>>)[1]
        set(pair) == [acc EXCEPT !.anim_frame = Some(pair)]
    IN  CASE variant.name = "AnimationFrame" -> set(<<variant.args[1], variant.args[1]>>)
          [] variant.name = "Left" -> set(<<ANIM_LEFT, ANIM_LEFT>>)
          [] variant.name = "Up" -> set(<<ANIM_UP, ANIM_UP>>)
          [] variant.name = "Down" -> set(<<ANIM_DOWN, ANIM_DOWN>>)
          [] variant.name = "Right" -> set(<<ANIM_RIGHT, ANIM_RIGHT>>)
          [] variant.name = "Sleep" -> set(<<wrapping_sub(frame, 1) % 32, frame>>)
          [] variant.name = "Animation" ->
                LET sum == add_u8(frame, variant.args[1], overflow_checks)
                IN  IF sum.panicked THEN [acc EXCEPT !.panicked = TRUE]
                    ELSE set(<<sum.value, sum.value>>)
          [] variant.name = "Tiling" ->
                LET got == into_frames(tiling_bits(variant.args[1], 1))
                IN  IF got.panicked THEN [acc EXCEPT !.panicked = TRUE]
                    ELSE set(got.value)
          [] OTHER -> [acc EXCEPT !.kept = <<variant>> \o @]

\* One call of the filter closure over tile.variants: acc holds anim_frame and
\* the variants kept so far.
filter_variant(acc, variant, overflow_checks) ==
    LET frame == unwrap_or(acc.anim_frame, <<0, 0>>)[1]
        set(pair) == [acc EXCEPT !.anim_frame = Some(pair)]
    IN  CASE variant.name = "AnimationFrame" -> set(<<variant.args[1], variant.args[1]>>)
          [] variant.name = "Left" -> set(<<ANIM_LEFT, ANIM_LEFT>>)
          [] variant.name = "Up" -> set(<<ANIM_UP, ANIM_UP>>)
          [] variant.name = "Down" -> set(<<ANIM_DOWN, ANIM_DOWN>>)
          [] variant.name = "Right" -> set(<<ANIM_RIGHT, ANIM_RIGHT>>)
          [] variant.name = "Sleep" -> set(<<wrapping_sub(frame, 1) % 32, frame>>)
          [] variant.name = "Animation" ->
                LET sum == add_u8(frame, variant.args[1], overflow_checks)
                IN  IF sum.panicked THEN [acc EXCEPT !.panicked = TRUE]
                    ELSE set(<<sum.value, sum.value>>)
          [] variant.name = "Tiling" ->
                LET got == into_frames(tiling_bits(variant.args[1], 1))
                IN  IF got.panicked THEN [acc EXCEPT !.panicked = TRUE]
                    ELSE set(got.value)
          [] OTHER -> [acc EXCEPT !.kept = Append(@, variant)]

RECURSIVE filter_variants(_, _, _, _)
filter_variants(variants, i, acc, overflow_checks) ==
    IF i > Len(variants) \/ acc.panicked THEN acc
    ELSE filter_variants(variants, i + 1,
                         filter_variant(acc, variants[i], overflow_checks),
                         overflow_checks)

\* One arm of check_neighbors!: whether the neighbour at offset (dx, dy) of
\* seed counts as present.
has_neighbor(name_map, seed, conn_corners, dx, dy) ==
    LET x == checked_add_signed(seed.x, dx)
        y == checked_add_signed(seed.x, dy)
    IN  IF is_some(x)
        THEN IF is_some(y)
             THEN [seed EXCEPT !.x = unwrap(x), !.y = unwrap(y)] \in DOMAIN name_map
             ELSE conn_corners
        ELSE conn_corners

\* The check_neighbors! invocation: the offsets and the flag each one sets.
NeighborOffsets ==
    << <<1, 0, RIGHT>>, <<0, -1, UP>>, <<-1, 0, LEFT>>, <<0, 1, DOWN>>,
       <<1, -1, UPRIGHT>>, <<-1, -1, UPLEFT>>, <<-1, 1, DOWNLEFT>>, <<1, 1, DOWNRIGHT>> >>

RECURSIVE check_neighbors(_, _, _, _)
check_neighbors(name_map, seed, conn_corners, i) ==
    IF i > Len(NeighborOffsets) THEN 0
    ELSE LET o == NeighborOffsets[i]
             rest == check_neighbors(name_map, seed, conn_corners, i + 1)
         IN  IF has_neighbor(name_map, seed, conn_corners, o[1], o[2])
             THEN BitOr(o[3], rest) ELSE rest

\* The tiles the easter egg may pick: database names that are in the pool.
characters(database, pool) == {name \in DOMAIN database : name \in pool}

\* The body of the closure that turns one (pos, name) of name_map into a
\* TileSkeleton.  rng[pos] is what `choose` draws for the tile at pos.
solidify_tile(pos, name0, tile, name_map, database, pool, connect_corners, rng, overflow_checks) ==
    LET folded == filter_variants(tile.variants, 1,
                      [anim_frame |-> None, kept |-> <<>>, panicked |-> FALSE],
                      overflow_checks)
        name == IF name0 = "2" /\ characters(database, pool) # {}
                THEN rng[pos] ELSE name0
        exists == name \in DOMAIN database
        auto == exists /\ ~is_some(folded.anim_frame)
                       /\ database[name].tiling = "AutoTiled"
        tiled == into_frames(check_neighbors(name_map, pos, connect_corners, 1))
    IN  IF folded.panicked \/ (auto /\ tiled.panicked) THEN Panicked
        ELSE Returned(
            [data |-> IF exists THEN [kind |-> "Existing", data |-> database[name]]
                      ELSE [kind |-> "Generative", name |-> name],
             animation_frame |-> IF auto THEN tiled.value
                                 ELSE unwrap_or(folded.anim_frame, <<0, 0>>),
             variants |-> folded.kept,
             span |-> tile.span])

solidify(self, database, mode, pool, rng, overflow_checks) ==
    LET connect_corners == "ConnectBorders" \in DOMAIN self.flags
        default_to_letters == "UseLetters" \in DOMAIN self.flags
        flags == [f \in DOMAIN self.flags \ {"ConnectBorders", "UseLetters"} |-> self.flags[f]]
        objects == self.map.objects
        name_map == [pos \in DOMAIN objects |->
                        canonical_name(objects[pos].tag, mode, objects[pos].name)]
        tiles == [pos \in DOMAIN objects |->
                    solidify_tile(pos, name_map[pos], objects[pos], name_map, database,
                                  pool, connect_corners, rng, overflow_checks)]
    IN  IF \E pos \in DOMAIN objects : tiles[pos].panicked THEN Panicked
        ELSE Returned(
            [map |-> ObjectMap(self.map.width, self.map.height, self.map.length,
                               [pos \in DOMAIN objects |-> tiles[pos].value]),
             letters |-> default_to_letters,
             flags |-> flags])

(***************************************************************************)
(* Where the code binds a value with `let` and uses it more than once, the *)
(* definition names it with a local operator with_<name>(<name>), applied  *)
(* once to the value.                                                      *)
(***************************************************************************)

(***************************************************************************)
(* Color (src/src/database/structures.rs)                                  *)
(***************************************************************************)
Paletted(x, y) == [kind |-> "Paletted", x |-> x, y |-> y]
RGB(r, g, b) == [kind |-> "RGB", r |-> r, g |-> g, b |-> b]

Ok(v) == [ok |-> TRUE, value |-> v]
Err(e) == [ok |-> FALSE, error |-> e]

CharAt(s, i) == SubSeq(s, i, i)

UpperHex == "0123456789ABCDEF"
LowerHex == "0123456789abcdef"

\* {:02X} of a u8.
format_02X(n) == CharAt(UpperHex, (n \div 16) + 1) \o CharAt(UpperHex, (n % 16) + 1)

\* impl Display for Color
display_color(c) ==
    IF c.kind = "RGB" THEN "#" \o format_02X(c.r) \o format_02X(c.g) \o format_02X(c.b)
    ELSE "(" \o ToString(c.x) \o ", " \o ToString(c.y) \o ")"

\* char::to_digit(16)
to_digit16(ch) ==
    IF \E d \in 1..16 : CharAt(UpperHex, d) = ch
        THEN Some((CHOOSE d \in 1..16 : CharAt(UpperHex, d) = ch) - 1)
    ELSE IF \E d \in 1..16 : CharAt(LowerHex, d) = ch
        THEN Some((CHOOSE d \in 1..16 : CharAt(LowerHex, d) = ch) - 1)
    ELSE None

RECURSIVE digits_value(_, _, _)
digits_value(s, i, acc) ==
    IF i > Len(s) THEN Some(acc)
    ELSE LET with_d(d) ==
             IF ~is_some(d) THEN None
             ELSE digits_value(s, i + 1, acc * 16 + unwrap(d))
         IN  with_d(to_digit16(CharAt(s, i)))

\* u32::from_str_radix(s, 16) on at most six characters: an optional + sign,
\* then at least one hex digit.
from_str_radix16(s) ==
    LET digits == IF Len(s) > 0 /\ CharAt(s, 1) = "+" THEN SubSeq(s, 2, Len(s)) ELSE s
    IN  IF digits = "" THEN None ELSE digits_value(digits, 1, 0)

\* u32::to_be_bytes
to_be_bytes(n) ==
    <<(n \div 16777216) % 256, (n \div 65536) % 256, (n \div 256) % 256, n % 256>>

\* The colour names of Color::from_str.
ColorNames ==
    [name \in {"maroon", "gold", "teal", "red", "orange", "yellow", "lime", "green",
               "cyan", "blue", "purple", "pink", "rosy", "grey", "gray", "black",
               "silver", "white", "brown", "darkpink"} |->
        CASE name = "maroon" -> Paletted(2, 1)
          [] name = "gold" -> Paletted(6, 2)
          [] name = "teal" -> Paletted(1, 2)
          [] name = "red" -> Paletted(2, 2)
          [] name = "orange" -> Paletted(2, 3)
          [] name = "yellow" -> Paletted(2, 4)
          [] name = "lime" -> Paletted(5, 3)
          [] name = "green" -> Paletted(5, 2)
          [] name = "cyan" -> Paletted(1, 4)
          [] name = "blue" -> Paletted(3, 2)
          [] name = "purple" -> Paletted(3, 1)
          [] name = "pink" -> Paletted(4, 1)
          [] name = "rosy" -> Paletted(4, 2)
          [] name \in {"grey", "gray"} -> Paletted(0, 1)
          [] name = "black" -> Paletted(0, 4)
          [] name = "silver" -> Paletted(0, 2)
          [] name = "white" -> Paletted(0, 3)
          [] name = "brown" -> Paletted(6, 1)
          [] name = "darkpink" -> RGB(128, 0, 59)]

\* impl FromStr for Color
color_from_str(v) ==
    IF Len(v) > 0 /\ CharAt(v, 1) = "#"
    THEN IF Len(v) # 7 THEN Err("WrongLength")
         ELSE LET with_bytes(bytes) == Ok(RGB(bytes[1], bytes[2], bytes[3]))
                  with_rgb(rgb) ==
                      IF ~is_some(rgb) THEN Err("NotHex")
                      ELSE with_bytes(to_be_bytes(unwrap(rgb)))
              IN  with_rgb(from_str_radix16(SubSeq(v, 2, Len(v))))
    ELSE IF v \in DOMAIN ColorNames THEN Ok(ColorNames[v])
    ELSE Err("InvalidName")

(***************************************************************************)
(* The argument kit (src/src/arguments/args.rs).                           *)
(***************************************************************************)
Digits == "0123456789"

is_digit(ch) == \E d \in 1..10 : CharAt(Digits, d) = ch
digit(ch) == (CHOOSE d \in 1..10 : CharAt(Digits, d) = ch) - 1

RECURSIVE decimal_value(_, _, _)
decimal_value(s, i, acc) ==
    IF i > Len(s) THEN Some(acc)
    ELSE IF ~is_digit(CharAt(s, i)) THEN None
    ELSE decimal_value(s, i + 1, acc * 10 + digit(CharAt(s, i)))

\* u8::from_str: an optional + sign, then decimal digits, at most 255.
u8_from_str(s) ==
    LET digits == IF Len(s) > 0 /\ CharAt(s, 1) = "+" THEN SubSeq(s, 2, Len(s)) ELSE s
        with_value(value) ==
            IF digits = "" \/ ~is_some(value) THEN Err("ParseIntError")
            ELSE IF unwrap(value) > 255 THEN Err("ParseIntError")
            ELSE Ok(unwrap(value))
    IN  with_value(decimal_value(digits, 1, 0))

\* isize::from_str on a short token: an optional sign, then decimal digits.
isize_from_str(s) ==
    LET signed == Len(s) > 0 /\ CharAt(s, 1) \in {"+", "-"}
        digits == IF signed THEN SubSeq(s, 2, Len(s)) ELSE s
        with_value(value) ==
            IF digits = "" \/ ~is_some(value) THEN Err("ParseIntError")
            ELSE IF signed /\ CharAt(s, 1) = "-" THEN Ok(0 - unwrap(value))
            ELSE Ok(unwrap(value))
    IN  with_value(decimal_value(digits, 1, 0))

\* arg_unit_enum!{ MetaKernel: ... }
meta_kernel_from_str(arg) ==
    CASE arg = "full" -> Ok("Full")
      [] arg = "edge" -> Ok("Edge")
      [] arg = "unit" -> Ok("Unit")
      [] OTHER -> Err("must be one of: full, edge, unit")

\* arg_unit_enum!{ TilingDirection: ... }
tiling_direction_from_str(arg) ==
    CASE arg = "r" -> Ok("Right")
      [] arg = "u" -> Ok("Up")
      [] arg = "l" -> Ok("Left")
      [] arg = "d" -> Ok("Down")
      [] arg = "ur" -> Ok("UpRight")
      [] arg = "ul" -> Ok("UpLeft")
      [] arg = "dl" -> Ok("DownLeft")
      [] arg = "dr" -> Ok("DownRight")
      [] OTHER -> Err("must be one of: r, u, l, d, ur, ul, dl, dr")

\* What T::parse makes of one token, T being a type that reads one token.
token_from_str(ty, arg) ==
    CASE ty = "u8" -> u8_from_str(arg)
      [] ty = "isize" -> isize_from_str(arg)
      [] ty = "Color" -> color_from_str(arg)
      [] ty = "MetaKernel" -> meta_kernel_from_str(arg)
      [] ty = "TilingDirection" -> tiling_direction_from_str(arg)

\* The declared argument types.
Scalar(ty) == [shape |-> "scalar", ty |-> ty]
OptionOf(ty) == [shape |-> "Option", ty |-> ty]
VecOf(ty) == [shape |-> "Vec", ty |-> ty]

\* <T as Argument>::parse on the iterator's next token, for arg_unit_enum!
\* and arg_from_str! types: [result, next], next being the first token the
\* iterator has not yielded.
parse_scalar(ty, args, next) ==
    IF next > Len(args) THEN [result |-> Err("not supplied"), next |-> next]
    ELSE [result |-> token_from_str(ty, args[next]), next |-> next + 1]

\* Option<T>::parse, were a token that does not parse to count as absent.
parse_option_lenient(ty, args, next) ==
    IF next > Len(args) THEN [result |-> Ok(None), next |-> next]
    ELSE LET with_got(got) ==
                 [result |-> IF got.ok THEN Ok(Some(got.value)) ELSE Ok(None),
                  next |-> next + 1]
         IN  with_got(token_from_str(ty, args[next]))

\* impl Argument for Option<T>
parse_option(ty, args, next) ==
    IF next > Len(args) THEN [result |-> Ok(None), next |-> next]
    ELSE LET with_got(got) ==
                 [result |-> IF got.ok THEN Ok(Some(got.value)) ELSE got, next |-> next + 1]
         IN  with_got(token_from_str(ty, args[next]))

\* impl Argument for Vec<T>: collects until the first token that fails.
RECURSIVE parse_vec(_, _, _, _)
parse_vec(ty, args, next, acc) ==
    IF next > Len(args) THEN [result |-> Ok(acc), next |-> next]
    ELSE LET with_got(got) ==
             IF got.ok THEN parse_vec(ty, args, next + 1, Append(acc, got.value))
             ELSE [result |-> got, next |-> next + 1]
         IN  with_got(token_from_str(ty, args[next]))

parse_argument(type, args, next) ==
    CASE type.shape = "scalar" -> parse_scalar(type.ty, args, next)
      [] type.shape = "Option" -> parse_option(type.ty, args, next)
      [] type.shape = "Vec" -> parse_vec(type.ty, args, next, <<>>)

\* The parse arms, were they to report every failure at position 0.
RECURSIVE parse_declared_index_zero(_, _, _, _, _)
parse_declared_index_zero(kind, types, args, next, parsed_args) ==
    IF Len(parsed_args) = Len(types) THEN Ok(parsed_args)
    ELSE LET with_got(got) ==
             IF got.result.ok
             THEN parse_declared_index_zero(kind, types, args, got.next,
                                            Append(parsed_args, got.result.value))
             ELSE Err([error |-> "InvalidArgument", kind |-> kind,
                       index |-> 0, cause |-> got.result.error])
         IN  with_got(parse_argument(types[Len(parsed_args) + 1], args, next))

\* The parse arms, were they to refuse tokens left over by the declared types.
RECURSIVE parse_declared_strict(_, _, _, _, _)
parse_declared_strict(kind, types, args, next, parsed_args) ==
    IF Len(parsed_args) = Len(types)
    THEN IF next <= Len(args)
         THEN Err([error |-> "InvalidArgument", kind |-> kind,
                   index |-> Len(types), cause |-> "surplus"])
         ELSE Ok(parsed_args)
    ELSE LET with_got(got) ==
             IF got.result.ok
             THEN parse_declared_strict(kind, types, args, got.next,
                                        Append(parsed_args, got.result.value))
             ELSE Err([error |-> "InvalidArgument", kind |-> kind,
                       index |-> Len(parsed_args), cause |-> got.result.error])
         IN  with_got(parse_argument(types[Len(parsed_args) + 1], args, next))

\* The parse arms of variants! and flags!: one declared type after the
\* other on the same iterator; count is the number of arguments parsed.
RECURSIVE parse_declared(_, _, _, _, _)
parse_declared(kind, types, args, next, parsed_args) ==
    IF Len(parsed_args) = Len(types) THEN Ok(parsed_args)
    ELSE LET with_got(got) ==
             IF got.result.ok
             THEN parse_declared(kind, types, args, got.next,
                                 Append(parsed_args, got.result.value))
             ELSE Err([error |-> "InvalidArgument", kind |-> kind,
                       index |-> Len(parsed_args), cause |-> got.result.error])
         IN  with_got(parse_argument(types[Len(parsed_args) + 1], args, next))

(***************************************************************************)
(* The variants and the flags (src/src/arguments/variants.rs, flags.rs).   *)
(***************************************************************************)
Declared(name, aliases, arguments) ==
    [name |-> name, aliases |-> aliases, arguments |-> arguments]

VARIANT_DATA ==
    << Declared("Meta", <<"meta", "m">>,
                <<OptionOf("u8"), OptionOf("MetaKernel"), OptionOf("u8")>>),
       Declared("Noop", <<"">>, <<>>),
       Declared("AnimationFrame", <<"frame", "f">>, <<Scalar("u8")>>),
       Declared("Left", <<"left", "l">>, <<>>),
       Declared("Up", <<"up", "u">>, <<>>),
       Declared("Down", <<"down", "d">>, <<>>),
       Declared("Right", <<"right", "r">>, <<>>),
       Declared("Sleep", <<"sleep", "s", "eepy">>, <<>>),
       Declared("Animation", <<"anim", "a">>, <<Scalar("u8")>>),
       Declared("Tiling", <<"t", "tiling">>, <<VecOf("TilingDirection")>>),
       Declared("Color", <<"c", "color">>, <<Scalar("Color")>>),
       Declared("Displace", <<"disp", "d", "displace">>, <<Scalar("isize"), Scalar("isize")>>) >>

FLAG_DATA ==
    << Declared("BackgroundColor", <<"b", "background">>, <<Scalar("Color")>>),
       Declared("ConnectBorders", <<"tb", "tile_borders">>, <<>>),
       Declared("UseLetters", <<"letters", "let">>, <<>>) >>

has_alias(entry, alias) == \E a \in 1..Len(entry.aliases) : entry.aliases[a] = alias

\* from_alias: the first match arm that lists the alias.
from_alias(data, alias) ==
    IF \E i \in 1..Len(data) : has_alias(data[i], alias)
    THEN Some(data[CHOOSE i \in 1..Len(data) :
                    /\ has_alias(data[i], alias)
                    /\ \A j \in 1..(i - 1) : ~has_alias(data[j], alias)].name)
    ELSE None

arguments_of(data, name) == (CHOOSE i \in 1..Len(data) : data[i].name = name)

\* Variant::parse and Flag::parse
variant_parse(name, arguments) ==
    LET with_got(got) == IF got.ok THEN Ok(Variant(name, got.value)) ELSE got
    IN  with_got(parse_declared("variant",
                     VARIANT_DATA[arguments_of(VARIANT_DATA, name)].arguments,
                     arguments, 1, <<>>))

flag_parse(name, arguments) ==
    LET with_got(got) == IF got.ok THEN Ok(Variant(name, got.value)) ELSE got
    IN  with_got(parse_declared("flag",
                     FLAG_DATA[arguments_of(FLAG_DATA, name)].arguments,
                     arguments, 1, <<>>))

\* Variant::collapse_alias: a bare colour literal is the Color variant.
collapse_alias(alias) ==
    LET with_color(parsed_color) ==
            IF parsed_color.ok THEN Some(Variant("Color", <<parsed_color.value>>))
            ELSE None
    IN  with_color(color_from_str(alias))

(***************************************************************************)
(* The parser (src/src/parser/mod.rs).  A scene arrives as the pairs of    *)
(* its text: flags, each a list of parts (a name, then its arguments), and *)
(* a tilemap of rows of stacks of animation strips of cells; a cell is a   *)
(* tag, a tile name and a list of variants, each a name and its arguments. *)
(* A span names the pair it covers: the cell (or the flag) and the token.  *)
(***************************************************************************)
NoFlags == [f \in {} |-> <<>>]

Span(cell, token) == [cell |-> cell, token |-> token]

Cell(tag, name, variants) == [tag |-> tag, name |-> name, variants |-> variants]
VariantPair(name, args) == [name |-> name, args |-> args]

SpannedError(message, span) == [message |-> message, span |-> span]

\* arg_spans.nth(idx).unwrap_or(name_pair.as_span())
argument_span(where, args, idx, name_token, arg_token) ==
    IF idx + 1 <= Len(args) THEN Span(where, Append(arg_token, idx + 1))
    ELSE Span(where, name_token)

\* The closure of parse_tile that parses one variant pair.
parse_variant(pos, i, pair) ==
    LET with_got(got) ==
            IF got.ok THEN got
            ELSE Err(SpannedError("failed to parse variant",
                         argument_span(pos, pair.args, got.error.index,
                                       <<"var_name", i>>, <<"var_arg", i>>)))
        with_identifier(identifier) ==
            IF ~is_some(identifier)
            THEN Err(SpannedError("variant does not exist", Span(pos, <<"var_name", i>>)))
            ELSE with_got(variant_parse(unwrap(identifier), pair.args))
        with_var(var) ==
            IF is_some(var) THEN Ok(unwrap(var))
            ELSE with_identifier(from_alias(VARIANT_DATA, pair.name))
    IN  with_var(collapse_alias(pair.name))

\* collect::<Result<Vec<_>, _>>() over the variant pairs: the first error wins.
RECURSIVE parse_variants(_, _, _, _)
parse_variants(pos, pairs, i, acc) ==
    IF i > Len(pairs) THEN Ok(acc)
    ELSE LET with_got(got) ==
             IF got.ok THEN parse_variants(pos, pairs, i + 1, Append(acc, got.value))
             ELSE got
         IN  with_got(parse_variant(pos, i, pairs[i]))

\* parse_tile, were it to fill in the previous tile's variants whether or not
\* the cell has variants of its own.
parse_tile_always_fills(last_tile, tag, name, variants, pos) ==
    IF name \in {".", ""} /\ ~(name = "" /\ is_some(last_tile))
    THEN [result |-> Ok(None), last_tile |-> None]
    ELSE LET new_tile == name # ""
             name_string == IF new_tile THEN name ELSE unwrap(last_tile).tile.name
             with_filled(filled) ==
                 [result |-> Ok(Some(RawTile(name_string, tag, filled,
                                             Span(pos, <<"tile_name">>)))),
                  last_tile |-> last_tile]
             with_got(got) ==
                 IF ~got.ok THEN [result |-> got, last_tile |-> last_tile]
                 ELSE with_filled(IF ~new_tile /\ is_some(last_tile)
                                  THEN unwrap(last_tile).tile.variants ELSE got.value)
         IN  with_got(parse_variants(pos, variants, 1, <<>>))

\* parse_tile: [result, last_tile], last_tile being the carry as the call
\* leaves it.
parse_tile(last_tile, tag, name, variants, pos) ==
    IF name \in {".", ""} /\ ~(name = "" /\ is_some(last_tile))
    THEN [result |-> Ok(None), last_tile |-> None]
    ELSE LET new_tile == name # ""
             name_string == IF new_tile THEN name ELSE unwrap(last_tile).tile.name
             with_filled(filled) ==
                 [result |-> Ok(Some(RawTile(name_string, tag, filled,
                                             Span(pos, <<"tile_name">>)))),
                  last_tile |-> last_tile]
             with_got(got) ==
                 IF ~got.ok THEN [result |-> got, last_tile |-> last_tile]
                 ELSE with_filled(IF ~new_tile /\ got.value = <<>> /\ is_some(last_tile)
                                  THEN unwrap(last_tile).tile.variants ELSE got.value)
         IN  with_got(parse_variants(pos, variants, 1, <<>>))

Max(S) == CHOOSE m \in S : \A n \in S : n <= m

\* The padding branch, were it to leave the frame counter alone.
pad_last_same_frame(last_tile) == last_tile

\* The padding branch of the scan: the carry moved one frame on.
pad_last(last_tile) ==
    IF is_some(last_tile) THEN Some([unwrap(last_tile) EXCEPT !.pos.t = @ + 1])
    ELSE None

\* The scan over one animation strip padded to `length`: the tiles it yields
\* in order, and the error that ends it, if any.
RECURSIVE scan_strip(_, _, _, _, _, _)
scan_strip(cells, base, length, i, last_tile, out) ==
    IF i > Max({Len(cells), length}) THEN [tiles |-> out, error |-> None]
    ELSE IF i > Len(cells)
    THEN LET with_last(last) ==
                 scan_strip(cells, base, length, i + 1, last,
                            IF is_some(last) THEN Append(out, unwrap(last)) ELSE out)
         IN  with_last(pad_last(last_tile))
    ELSE LET pos == [base EXCEPT !.t = i - 1]
             with_placed(placed) ==
                 scan_strip(cells, base, length, i + 1, Some(placed), Append(out, placed))
             with_got(got) ==
                 IF ~got.result.ok THEN [tiles |-> out, error |-> Some(got.result.error)]
                 ELSE IF ~is_some(got.result.value)
                 THEN scan_strip(cells, base, length, i + 1, got.last_tile, out)
                 ELSE with_placed([pos |-> pos, tile |-> unwrap(got.result.value)])
         IN  with_got(parse_tile(last_tile, cells[i].tag, cells[i].name,
                                 cells[i].variants, pos))

\* tilemap_iter: the strips in the order of rows (y), stacks (x), layers (z).
RECURSIVE tilemap_iter(_, _, _, _)
tilemap_iter(tilemap, y, x, z) ==
    IF y > Len(tilemap) THEN <<>>
    ELSE IF x > Len(tilemap[y]) THEN tilemap_iter(tilemap, y + 1, 1, 1)
    ELSE IF z > Len(tilemap[y][x]) THEN tilemap_iter(tilemap, y, x + 1, 1)
    ELSE <<[base |-> Position(x - 1, y - 1, z - 1, 0), cells |-> tilemap[y][x][z]]>>
         \o tilemap_iter(tilemap, y, x, z + 1)

\* The flat_map over the strips, collected into a Result: the tiles of all
\* strips, or the first error.
RECURSIVE collect_tiles(_, _, _, _)
collect_tiles(strips, length, i, out) ==
    IF i > Len(strips) THEN Ok(out)
    ELSE LET with_got(got) ==
             IF is_some(got.error) THEN Err(unwrap(got.error))
             ELSE collect_tiles(strips, length, i + 1, out \o got.tiles)
         IN  with_got(scan_strip(strips[i].cells, strips[i].base, length, 1, None, <<>>))

\* The collection of the flags, were the first flag of a name to stay.
RECURSIVE parse_flags_first_stays(_, _, _)
parse_flags_first_stays(pairs, i, acc) ==
    IF i > Len(pairs) THEN Ok(acc)
    ELSE IF Len(pairs[i]) = 0 THEN parse_flags_first_stays(pairs, i + 1, acc)
    ELSE LET name == pairs[i][1]
             args == SubSeq(pairs[i], 2, Len(pairs[i]))
             with_flag(identifier, got) ==
                 IF ~got.ok
                 THEN Err(SpannedError("failed to parse flag",
                              argument_span(<<"flag", i>>, args, got.error.index,
                                            <<"flag_name">>, <<"flag_arg">>)))
                 ELSE parse_flags_first_stays(pairs, i + 1,
                          [f \in DOMAIN acc \cup {unwrap(identifier)} |->
                              IF f \in DOMAIN acc THEN acc[f] ELSE got.value])
             with_identifier(identifier) ==
                 IF ~is_some(identifier)
                 THEN Err(SpannedError("flag does not exist",
                                       Span(<<"flag", i>>, <<"flag_name">>)))
                 ELSE with_flag(identifier, flag_parse(unwrap(identifier), args))
         IN  with_identifier(from_alias(FLAG_DATA, name))

\* The filter_map over the flag pairs, collected into a Result<HashMap>:
\* a later flag of the same name replaces the earlier one.
RECURSIVE parse_flags(_, _, _)
parse_flags(pairs, i, acc) ==
    IF i > Len(pairs) THEN Ok(acc)
    ELSE IF Len(pairs[i]) = 0 THEN parse_flags(pairs, i + 1, acc)
    ELSE LET name == pairs[i][1]
             args == SubSeq(pairs[i], 2, Len(pairs[i]))
             with_flag(identifier, got) ==
                 IF ~got.ok
                 THEN Err(SpannedError("failed to parse flag",
                              argument_span(<<"flag", i>>, args, got.error.index,
                                            <<"flag_name">>, <<"flag_arg">>)))
                 ELSE parse_flags(pairs, i + 1,
                          [f \in DOMAIN acc \cup {unwrap(identifier)} |->
                              IF f = unwrap(identifier) THEN got.value ELSE acc[f]])
             with_identifier(identifier) ==
                 IF ~is_some(identifier)
                 THEN Err(SpannedError("flag does not exist",
                                       Span(<<"flag", i>>, <<"flag_name">>)))
                 ELSE with_flag(identifier, flag_parse(unwrap(identifier), args))
         IN  with_identifier(from_alias(FLAG_DATA, name))

\* BTreeMap::from_iter: a later entry of the same position replaces the earlier.
collect_objects(tiles) ==
    [pos \in {tiles[i].pos : i \in 1..Len(tiles)} |->
        tiles[Max({i \in 1..Len(tiles) : tiles[i].pos = pos})].tile]

\* The fold, were it to take the greatest t itself for the length.
fold_extent_greatest_t(strips) ==
    LET filled == {i \in 1..Len(strips) : Len(strips[i].cells) > 0}
    IN  [x |-> Max({0} \cup {strips[i].base.x + 1 : i \in filled}),
         y |-> Max({0} \cup {strips[i].base.y + 1 : i \in filled}),
         t |-> Max({0} \cup {Len(strips[i].cells) - 1 : i \in filled})]

\* The fold over every cell's position that gives width, height and length.
fold_extent(strips) ==
    LET filled == {i \in 1..Len(strips) : Len(strips[i].cells) > 0}
    IN  [x |-> Max({0} \cup {strips[i].base.x + 1 : i \in filled}),
         y |-> Max({0} \cup {strips[i].base.y + 1 : i \in filled}),
         t |-> Max({0} \cup {(Len(strips[i].cells) - 1) + 1 : i \in filled})]

\* parse, after the grammar has accepted the text.
parse(pairs) ==
    LET with_tiles(flags, extent, tiles) ==
            IF ~tiles.ok THEN tiles
            ELSE Ok([map |-> ObjectMap(extent.x, extent.y, extent.t,
                                       collect_objects(tiles.value)),
                     flags |-> flags.value])
        with_extent(flags, strips, extent) ==
            with_tiles(flags, extent, collect_tiles(strips, extent.t, 1, <<>>))
        with_strips(flags, strips) == with_extent(flags, strips, fold_extent(strips))
        with_flags(flags) ==
            IF ~flags.ok THEN flags
            ELSE with_strips(flags, tilemap_iter(pairs.tilemap, 1, 1, 1))
    IN  with_flags(parse_flags(pairs.flags, 1, NoFlags))

(***************************************************************************)
(* Inputs of the solidifier.                                               *)
(***************************************************************************)
SeqsUpTo(S, n) == UNION {[1..k -> S] : k \in 0..n}

TileData(sprite, tiling) == [sprite |-> sprite, tiling |-> tiling]

\* A database with an auto-tiled tile, a character and a text tile.
Db ==
    [name \in {"wall", "baba", "text_baba"} |->
        IF name = "wall" THEN TileData(name, "AutoTiled")
        ELSE IF name = "baba" THEN TileData(name, "Character")
        ELSE TileData(name, "None")]

EmptyDb == [name \in {} |-> TileData(name, "None")]

ConnectBordersOnly == [f \in {"ConnectBorders"} |-> <<>>]

FrameSetting ==
    {"AnimationFrame", "Left", "Up", "Down", "Right", "Sleep", "Animation", "Tiling"}

\* The widest grid of the neighbour scenes, and the longest variant list.
Width == 3
Height == 2
MaxVariants == 2

Grid == {Position(x, y, 0, 0) : x \in 0..(Width - 1), y \in 0..(Height - 1)}

Wall(pos) == RawTile("wall", None, <<>>, Span(pos, <<"tile_name">>))

\* One more tile: on another layer or frame, or a tile that is not auto-tiled.
ExtraTiles ==
    {<<[pos EXCEPT !.z = 1], Wall([pos EXCEPT !.z = 1])>> : pos \in Grid}
    \cup {<<[pos EXCEPT !.t = 1], Wall([pos EXCEPT !.t = 1])>> : pos \in Grid}
    \cup {<<pos, RawTile("baba", None, <<>>, Span(pos, <<"tile_name">>))>> : pos \in Grid}

\* A scene of walls, with at most one more tile.
NeighborScene(walls, extra, flags) ==
    [map |-> ObjectMap(Width, Height, 2,
                [pos \in walls \cup {e[1] : e \in extra} |->
                    IF \E e \in extra : e[1] = pos
                    THEN (CHOOSE e \in extra : e[1] = pos)[2] ELSE Wall(pos)]),
     flags |-> flags]

VariantAlphabet ==
    {Variant("AnimationFrame", <<7>>), Variant("AnimationFrame", <<255>>),
     Variant("Left", <<>>), Variant("Up", <<>>), Variant("Down", <<>>),
     Variant("Right", <<>>), Variant("Sleep", <<>>),
     Variant("Animation", <<1>>), Variant("Animation", <<200>>),
     Variant("Tiling", << <<"Up", "Right", "UpRight">> >>),
     Variant("Tiling", << <<"UpRight">> >>),
     Variant("Color", <<[kind |-> "Paletted", x |-> 2, y |-> 2]>>),
     Variant("Noop", <<>>)}

Origin == Position(0, 0, 0, 0)

PlainTile(name, tag, variants) ==
    [map |-> ObjectMap(1, 1, 1,
                [pos \in {Origin} |-> RawTile(name, tag, variants, Span(pos, <<"tile_name">>))]),
     flags |-> NoFlags]

\* One tile with every short variant list.
VariantScenes ==
    {PlainTile("baba", None, variants) :
        variants \in SeqsUpTo(VariantAlphabet, MaxVariants)}

\* One tile with every name and tag.
NameScenes ==
    {PlainTile(name, tag, variants) :
        name \in {"baba", "text_baba", "glyph_baba", "wall", "2"},
        tag \in {None, Some("Text"), Some("Glyph")},
        variants \in {<<>>, <<Variant("Left", <<>>)>>}}

\* What `choose` may draw for each tile named 2.
Rngs(self, database, mode, pool) ==
    LET objects == self.map.objects
        twos == {pos \in DOMAIN objects :
                    canonical_name(objects[pos].tag, mode, objects[pos].name) = "2"}
    IN  IF characters(database, pool) = {} THEN {[pos \in twos |-> "2"]}
        ELSE [twos -> characters(database, pool)]

(***************************************************************************)
(* The stages.                                                             *)
(***************************************************************************)
FramesIdle == mask = 0 /\ frames = None
SolidifyIdle ==
    /\ raw = None /\ db = EmptyDb /\ default = "Tile"
    /\ easter_egg_tiles = {} /\ skeletal = None
ColorIdle == text = "" /\ color = None
ParseIdle == scene = None /\ parsed = None
ArgumentIdle == call = None /\ returned = None
RenderIdle ==
    /\ skel_scene = None /\ assets = <<>> /\ cache = None
    /\ rendered = None /\ trace = <<>>

framesVars == <<mask, frames>>
solidifyVars == <<raw, db, default, easter_egg_tiles, skeletal>>
colorVars == <<text, color>>
parseVars == <<scene, parsed>>
argumentVars == <<call, returned>>
renderVars == <<skel_scene, assets, cache, rendered, trace>>

InitFrames ==
    /\ pc = "ready"
    /\ mask \in U8 /\ frames = None
    /\ SolidifyIdle /\ ColorIdle /\ ParseIdle /\ ArgumentIdle /\ RenderIdle

IntoFrames ==
    /\ pc = "ready"
    /\ frames' = into_frames(mask)
    /\ pc' = "done"
    /\ UNCHANGED <<mask, solidifyVars, colorVars, parseVars, argumentVars, renderVars>>

SpecFrames == InitFrames /\ [][IntoFrames]_vars

InitNeighbors ==
    /\ pc = "ready"
    /\ \E walls \in SUBSET Grid,
          extra \in {{}} \cup {{e} : e \in ExtraTiles},
          flags \in {NoFlags, ConnectBordersOnly} :
            raw = NeighborScene(walls, extra, flags)
    /\ db = Db /\ default = "Tile" /\ easter_egg_tiles = {}
    /\ skeletal = None
    /\ FramesIdle /\ ColorIdle /\ ParseIdle /\ ArgumentIdle /\ RenderIdle

InitVariants ==
    /\ pc = "ready"
    /\ \/ /\ raw \in VariantScenes
          /\ db = Db /\ default = "Tile" /\ easter_egg_tiles = {}
       \/ /\ raw \in NameScenes
          /\ db \in {Db, EmptyDb}
          /\ default \in {"Tile", "Text", "Glyph"}
          /\ easter_egg_tiles \in {{}, {"baba", "wall"}}
    /\ skeletal = None
    /\ FramesIdle /\ ColorIdle /\ ParseIdle /\ ArgumentIdle /\ RenderIdle

Solidify ==
    /\ pc = "ready"
    /\ \E overflow_checks \in BOOLEAN,
          rng \in Rngs(raw, db, default, easter_egg_tiles) :
            skeletal' = solidify(raw, db, default, easter_egg_tiles, rng, overflow_checks)
    /\ pc' = "done"
    /\ UNCHANGED <<raw, db, default, easter_egg_tiles, framesVars, colorVars, parseVars, argumentVars, renderVars>>

SpecNeighbors == InitNeighbors /\ [][Solidify]_vars
SpecVariants == InitVariants /\ [][Solidify]_vars

(***************************************************************************)
(* The frame pair a neighbour mask should give.                            *)
(***************************************************************************)
Bit(m, flag) == (m \div flag) % 2 = 1

\* m with each diagonal bit cleared unless both adjacent cardinals are set.
Normalized(m) ==
    LET dropped(diagonal, c1, c2) ==
            IF Bit(m, diagonal) /\ ~(Bit(m, c1) /\ Bit(m, c2)) THEN diagonal ELSE 0
    IN  m - dropped(UPRIGHT, UP, RIGHT) - dropped(UPLEFT, UP, LEFT)
          - dropped(DOWNLEFT, DOWN, LEFT) - dropped(DOWNRIGHT, DOWN, RIGHT)

CardinalOnly(m) == m - (m % 16)

ClaimedFrames(m) ==
    <<unwrap(into_frame(Normalized(m))), unwrap(into_frame(CardinalOnly(m)))>>

\* C1: for every mask m, into_frames(m) returns (into_frame(n), into_frame(m
\* restricted to the cardinal bits)), n being m with each diagonal cleared
\* unless both adjacent cardinals are set; the fallback is in 0..=15.
C1_IntoFramesNormalizes ==
    pc = "done" =>
        /\ frames = Returned(ClaimedFrames(mask))
        /\ ClaimedFrames(mask)[2] \in 0..15

\* C2: solidify returns a SkeletalScene without panicking for every scene,
\* database, default mode and easter egg pool, whatever Tiling direction
\* list and whatever sequence of frame-setting variants a tile carries.
C2_SolidifyNeverPanics ==
    pc = "done" => ~skeletal.panicked

(***************************************************************************)
(* The neighbour mask an auto-tiled tile should get.                       *)
(***************************************************************************)
InGrid(self, x, y) ==
    x >= 0 /\ y >= 0 /\ x < self.map.width /\ y < self.map.height

\* The neighbour at (dx, dy) of pos: a tile of the scene at the same (z, t),
\* or a place outside the grid when those count.
Neighbor(self, pos, dx, dy, outside_counts) ==
    IF InGrid(self, pos.x + dx, pos.y + dy)
    THEN [pos EXCEPT !.x = pos.x + dx, !.y = pos.y + dy] \in DOMAIN self.map.objects
    ELSE outside_counts

RECURSIVE ClaimedMaskFrom(_, _, _, _)
ClaimedMaskFrom(self, pos, outside_counts, i) ==
    IF i > Len(NeighborOffsets) THEN 0
    ELSE LET o == NeighborOffsets[i]
         IN  (IF Neighbor(self, pos, o[1], o[2], outside_counts) THEN o[3] ELSE 0)
             + ClaimedMaskFrom(self, pos, outside_counts, i + 1)

ClaimedMask(self, pos, outside_counts) == ClaimedMaskFrom(self, pos, outside_counts, 1)

\* The tiles whose frame comes from their neighbours: AutoTiled in the
\* database and without a frame-setting variant.
AutoTiledPlain(self, database, mode) ==
    {pos \in DOMAIN self.map.objects :
        LET tile == self.map.objects[pos]
            name == canonical_name(tile.tag, mode, tile.name)
        IN  /\ name \in DOMAIN database
            /\ database[name].tiling = "AutoTiled"
            /\ \A i \in 1..Len(tile.variants) : tile.variants[i].name \notin FrameSetting}

FramesOf(pos) == skeletal.value.map.objects[pos].animation_frame

\* C3: an AutoTiled tile without a frame-setting variant, wherever it stands
\* in the grid, gets the neighbour bit of (dx, dy) exactly when the scene
\* holds a tile at (x + dx, y + dy, z, t), and its frame pair is into_frames
\* of that mask.
C3_AutoTileNeighbors ==
    (pc = "done" /\ "ConnectBorders" \notin DOMAIN raw.flags) =>
        \A pos \in AutoTiledPlain(raw, db, default) :
            /\ ~skeletal.panicked
            /\ FramesOf(pos) = ClaimedFrames(ClaimedMask(raw, pos, FALSE))

\* C4: with the ConnectBorders flag every neighbour position outside the
\* grid (x < 0, y < 0, x >= width or y >= height) counts as present.
C4_ConnectBordersOutside ==
    (pc = "done" /\ "ConnectBorders" \in DOMAIN raw.flags) =>
        \A pos \in AutoTiledPlain(raw, db, default) :
            /\ ~skeletal.panicked
            /\ FramesOf(pos) = ClaimedFrames(ClaimedMask(raw, pos, TRUE))

(***************************************************************************)
(* The colour stage.                                                       *)
(***************************************************************************)
\* str::to_ascii_lowercase on a colour literal.
RECURSIVE LowerCase(_)
LowerCase(s) ==
    IF s = "" THEN ""
    ELSE LET ch == CharAt(s, 1)
             d == to_digit16(ch)
         IN  (IF is_some(d) THEN CharAt(LowerHex, unwrap(d) + 1) ELSE ch)
             \o LowerCase(SubSeq(s, 2, Len(s)))

\* Channel values: both nibbles zero, one nibble zero, letters and digits.
ColorBytes == {0, 1, 10, 16, 59, 128, 171, 255}

RGBColors == {RGB(r, g, b) : r \in ColorBytes, g \in ColorBytes, b \in ColorBytes}

ColorTexts ==
    {display_color(c) : c \in RGBColors}
    \cup {LowerCase(display_color(c)) : c \in RGBColors}
    \cup DOMAIN ColorNames
    \cup {"", "#", "#12345", "#1234567", "#GGGGGG", "#+12345", "bluu"}

InitColor ==
    /\ pc = "ready"
    /\ text \in ColorTexts /\ color = None
    /\ FramesIdle /\ SolidifyIdle /\ ParseIdle /\ ArgumentIdle /\ RenderIdle

FromStr ==
    /\ pc = "ready"
    /\ color' = color_from_str(text)
    /\ pc' = "done"
    /\ UNCHANGED <<text, framesVars, solidifyVars, parseVars, argumentVars, renderVars>>

SpecColor == InitColor /\ [][FromStr]_vars

\* C5: for every r, g, b, Color::from_str of the text #RRGGBB, in upper or in
\* lower case, returns RGB{r, g, b}: parsing the Display form of an RGB
\* colour gives the colour back.
C5_ColorRoundTrip ==
    pc = "done" =>
        \A c \in RGBColors :
            text \in {display_color(c), LowerCase(display_color(c))} => color = Ok(c)

(***************************************************************************)
(* The parser stage.                                                       *)
(***************************************************************************)
\* The longest animation strip, and the longest argument list.
MaxCells == 3
MaxArgs == 3

NonEmptySeqsUpTo(S, n) == SeqsUpTo(S, n) \ {<<>>}

Repeat(cell, n) == [i \in 1..n |-> cell]

\* The cells of the strip under study: named tiles with and without a tag
\* and variants, empty names with and without variants, the explicit
\* empty cell, and a tile with a variant that does not exist.
StripCells ==
    {Cell(None, "baba", <<>>),
     Cell(Some("Text"), "keke", <<VariantPair("red", <<>>)>>),
     Cell(None, "", <<>>),
     Cell(None, "", <<VariantPair("blue", <<>>)>>),
     Cell(None, ".", <<>>),
     Cell(None, "me", <<VariantPair("dne", <<>>)>>)}

\* The strips beside it: one tile, or MaxCells + 1 tiles, or as many empty
\* cells.
OtherStrips ==
    {Repeat(Cell(None, "me", <<>>), 1),
     Repeat(Cell(None, "me", <<>>), MaxCells + 1),
     Repeat(Cell(None, ".", <<>>), MaxCells + 1)}

\* The strip with another strip to its right, to its left, in the row below,
\* or in the layer above.
Layouts == {"right", "left", "below", "above"}

Layout(layout, main, other) ==
    CASE layout = "right" -> << << <<main>>, <<other>> >> >>
      [] layout = "left" -> << << <<other>>, <<main>> >> >>
      [] layout = "below" -> << << <<main>> >>, << <<other>> >> >>
      [] layout = "above" -> << << <<main, other>> >> >>

InitParse ==
    /\ pc = "ready"
    /\ \/ \E main \in NonEmptySeqsUpTo(StripCells, MaxCells) :
            scene = [flags |-> <<>>, tilemap |-> << << <<main>> >> >>]
       \/ \E main \in NonEmptySeqsUpTo(StripCells, MaxCells),
             other \in OtherStrips, layout \in Layouts :
            scene = [flags |-> <<>>, tilemap |-> Layout(layout, main, other)]
    /\ parsed = None
    /\ FramesIdle /\ SolidifyIdle /\ ColorIdle /\ ArgumentIdle /\ RenderIdle

Parse ==
    /\ pc = "ready"
    /\ parsed' = parse(scene)
    /\ pc' = "done"
    /\ UNCHANGED <<scene, framesVars, solidifyVars, colorVars, argumentVars, renderVars>>

SpecParse == InitParse /\ [][Parse]_vars

\* The animation strips of a tilemap, each named by its row, stack and layer.
StripIds(tilemap) ==
    UNION {UNION {{<<y, x, z>> : z \in 1..Len(tilemap[y][x])} :
                    x \in 1..Len(tilemap[y])} : y \in 1..Len(tilemap)}

CellsAt(tilemap, s) == tilemap[s[1]][s[2]][s[3]]

\* Where the i-th cell of strip s lies.
CellPos(s, i) == Position(s[2] - 1, s[1] - 1, s[3] - 1, i - 1)

Latest(S) == CHOOSE m \in S : \A n \in S : n <= m

\* The cells before the i-th that have a name or are a `.` cell.
Written(cells, i) == {j \in 1..(i - 1) : cells[j].name # ""}

\* The i-th cell has a predecessor to inherit from: the nearest cell before
\* it that is not an empty name is a named tile, not a `.` cell.
HasPredecessor(cells, i) ==
    Written(cells, i) # {} /\ cells[Latest(Written(cells, i))].name # "."

Predecessor(cells, i) == cells[Latest(Written(cells, i))]

Accepted == pc = "done" /\ parsed.ok

Objects == parsed.value.map.objects

\* C6: a cell with an empty name yields a tile with the name and the tag of
\* the nearest preceding tile of its strip when no `.` cell lies between
\* them, and no tile when there is no such predecessor; a `.` cell yields no
\* tile and clears the carry for the cells after it.
C6_EmptyNameInherits ==
    Accepted =>
        \A s \in StripIds(scene.tilemap) :
            LET cells == CellsAt(scene.tilemap, s)
            IN  \A i \in 1..Len(cells) :
                    /\ cells[i].name = "." => CellPos(s, i) \notin DOMAIN Objects
                    /\ cells[i].name = "" /\ ~HasPredecessor(cells, i)
                            => CellPos(s, i) \notin DOMAIN Objects
                    /\ cells[i].name = "" /\ HasPredecessor(cells, i)
                            => /\ CellPos(s, i) \in DOMAIN Objects
                               /\ Objects[CellPos(s, i)].name = Predecessor(cells, i).name
                               /\ Objects[CellPos(s, i)].tag = Predecessor(cells, i).tag

\* The variants a cell writes itself, parsed.
OwnVariants(pos, cell) ==
    [v \in 1..Len(cell.variants) |-> parse_variant(pos, v, cell.variants[v]).value]

\* C7: a cell with an empty name and no variants receives exactly the
\* previous tile's variant list; a cell with an empty name and at least one
\* variant receives exactly its own variants; a cell with an explicit name
\* never inherits variants from the previous tile.
C7_VariantCarry ==
    Accepted =>
        \A s \in StripIds(scene.tilemap) :
            LET cells == CellsAt(scene.tilemap, s)
            IN  \A i \in 1..Len(cells) :
                    CellPos(s, i) \in DOMAIN Objects =>
                        IF cells[i].name = "" /\ cells[i].variants = <<>>
                        THEN /\ CellPos(s, i - 1) \in DOMAIN Objects
                             /\ Objects[CellPos(s, i)].variants =
                                    Objects[CellPos(s, i - 1)].variants
                        ELSE Objects[CellPos(s, i)].variants =
                                    OwnVariants(CellPos(s, i), cells[i])

\* An accepted strip where a tile with variants is followed by an empty name
\* without variants, by an empty name with a variant, and by a named tile:
\* the first inherits, the other two do not.
C7_Witness ==
    /\ Accepted
    /\ \E s \in StripIds(scene.tilemap) :
            LET cells == CellsAt(scene.tilemap, s)
            IN  /\ Len(cells) = 3
                /\ cells[1].variants # <<>>
                /\ cells[2].name = "" /\ cells[2].variants = <<>>
                /\ cells[3].name = "" /\ cells[3].variants # <<>>
                /\ \A i \in 1..3 : CellPos(s, i) \in DOMAIN Objects
                /\ Objects[CellPos(s, 2)].variants = Objects[CellPos(s, 1)].variants
                /\ Objects[CellPos(s, 3)].variants # Objects[CellPos(s, 2)].variants

SameTile(a, b) == a.name = b.name /\ a.tag = b.tag /\ a.variants = b.variants

\* C8: every animation strip is padded to the scene's length: when its last
\* cell yields tile T at time k < length - 1, the map holds a copy of T (same
\* name, tag and variants) at the same (x, y, z) for every t in k + 1 ..
\* length - 1 and for no t >= length; a strip whose carry is empty at its end
\* gets no padded tile.
C8_PaddedToLength ==
    Accepted =>
        \A s \in StripIds(scene.tilemap) :
            LET cells == CellsAt(scene.tilemap, s)
                last == CellPos(s, Len(cells))
                later == {pos \in DOMAIN Objects :
                            /\ pos.x = last.x /\ pos.y = last.y /\ pos.z = last.z
                            /\ pos.t > last.t}
            IN  IF last \in DOMAIN Objects
                THEN /\ later = {[last EXCEPT !.t = t] :
                                    t \in (last.t + 1)..(parsed.value.map.length - 1)}
                     /\ \A pos \in later : SameTile(Objects[pos], Objects[last])
                ELSE later = {}

\* An accepted scene where a strip of one tile is padded by three frames.
C8_Witness ==
    /\ Accepted
    /\ \E s \in StripIds(scene.tilemap) :
            /\ Len(CellsAt(scene.tilemap, s)) = 1
            /\ parsed.value.map.length = 4
            /\ \A t \in 0..3 : [CellPos(s, 1) EXCEPT !.t = t] \in DOMAIN Objects

\* C9: every tile position stored in the map of an accepted scene, padded
\* tiles included, has x < width, y < height and t < length.
C9_PositionsInsideExtent ==
    Accepted =>
        \A pos \in DOMAIN Objects :
            /\ pos.x < parsed.value.map.width
            /\ pos.y < parsed.value.map.height
            /\ pos.t < parsed.value.map.length

\* An accepted scene with tiles in two rows, one of them padded, and one
\* with tiles in two columns.
C9_Witness ==
    /\ Accepted
    /\ parsed.value.map.height = 2
    /\ \E pos \in DOMAIN Objects : pos.y = 1 /\ pos.t = parsed.value.map.length - 1
    /\ \E pos \in DOMAIN Objects : pos.y = 0 /\ pos.t = parsed.value.map.length - 1

(***************************************************************************)
(* The argument stage: one tile whose last variant, or a scene whose last  *)
(* flag, takes every short list of argument tokens.                        *)
(***************************************************************************)
\* Aliases of the variants that declare arguments.
ArgNames == {"m", "f", "a", "t", "disp", "c"}

ArgTokens == {"2", "300", "-1", "full", "u", "ur", "red", "x"}

Me(variants) == << << << <<Cell(None, "me", variants)>> >> >> >>

InitArgs ==
    /\ pc = "ready"
    /\ \/ \E name \in ArgNames, args \in SeqsUpTo(ArgTokens, MaxArgs),
             before \in {<<>>, <<VariantPair("red", <<>>)>>} :
            scene = [flags |-> <<>>,
                     tilemap |-> Me(before \o <<VariantPair(name, args)>>)]
       \/ \E args \in SeqsUpTo(ArgTokens, MaxArgs),
             before \in {<<>>, << <<"tb">> >>} :
            scene = [flags |-> before \o << <<"b">> \o args >>,
                     tilemap |-> Me(<<>>)]
    /\ parsed = None
    /\ FramesIdle /\ SolidifyIdle /\ ColorIdle /\ ArgumentIdle /\ RenderIdle

SpecArgs == InitArgs /\ [][Parse]_vars

Earliest(S) == CHOOSE m \in S : \A n \in S : m <= n

\* The declared type that reads the k-th argument token: a Vec reads every
\* token from its place on, any other type reads the token at its place,
\* and the tokens after the last declared type are read by none.
TokenType(types, k) ==
    LET vecs == {i \in 1..Len(types) : types[i].shape = "Vec"}
    IN  IF vecs # {} /\ k >= Earliest(vecs) THEN Some(types[Earliest(vecs)].ty)
        ELSE IF k <= Len(types) THEN Some(types[k].ty)
        ELSE None

\* The argument tokens that do not parse as the type that reads them.
Failing(types, args) ==
    {k \in 1..Len(args) :
        /\ is_some(TokenType(types, k))
        /\ ~token_from_str(unwrap(TokenType(types, k)), args[k]).ok}

DeclaredTypes(data, alias) ==
    data[arguments_of(data, unwrap(from_alias(data, alias)))].arguments

\* The error whose span covers the k-th argument token, and nothing else.
SpanIs(where, token) ==
    pc = "done" /\ ~parsed.ok /\ parsed.error.span = Span(where, token)

\* C10: when an argument token of a variant or flag fails to parse, parse
\* returns an error whose span covers exactly the token that failed, for
\* every declared argument type (scalar, Option, Vec) and every position of
\* the failing token in the argument list.
C10_SpanCoversFailingToken ==
    pc = "done" =>
        IF scene.flags = <<>>
        THEN LET variants == scene.tilemap[1][1][1][1].variants
                 v == Len(variants)
                 failing == Failing(DeclaredTypes(VARIANT_DATA, variants[v].name),
                                    variants[v].args)
             IN  failing # {} => SpanIs(Origin, <<"var_arg", v, Earliest(failing)>>)
        ELSE LET f == Len(scene.flags)
                 parts == scene.flags[f]
                 failing == Failing(DeclaredTypes(FLAG_DATA, parts[1]),
                                    SubSeq(parts, 2, Len(parts)))
             IN  failing # {} => SpanIs(<<"flag", f>>, <<"flag_arg", Earliest(failing)>>)

(***************************************************************************)
(* The name stage: scenes of a few flags and one strip whose flag names    *)
(* and variant names exist or do not.                                      *)
(***************************************************************************)
\* The longest list of flags.
MaxFlags == 3

\* Flags by a name that exists, with and without an argument, and by one
\* that does not.
NameFlags == {<<"tb">>, <<"b", "red">>, <<"nope">>}

\* Cells whose variants exist, or do not: on a named tile, after a variant
\* that exists, and on a cell with an empty name.
NameCells ==
    {Cell(None, "baba", <<VariantPair("red", <<>>)>>),
     Cell(None, "me", <<VariantPair("dne", <<>>)>>),
     Cell(None, "me", <<VariantPair("l", <<>>), VariantPair("dne", <<>>)>>),
     Cell(None, "", <<VariantPair("dne", <<>>)>>)}

InitNames ==
    /\ pc = "ready"
    /\ \E flags \in SeqsUpTo(NameFlags, MaxFlags),
          main \in NonEmptySeqsUpTo(NameCells, MaxCells) :
            scene = [flags |-> flags, tilemap |-> << << <<main>> >> >>]
    /\ parsed = None
    /\ FramesIdle /\ SolidifyIdle /\ ColorIdle /\ ArgumentIdle /\ RenderIdle

SpecNames == InitNames /\ [][Parse]_vars

\* The name tokens of the flags of a scene that are no alias of a flag.
UnknownFlagNames(pairs) ==
    {Span(<<"flag", i>>, <<"flag_name">>) : i \in
        {i \in 1..Len(pairs.flags) :
            /\ Len(pairs.flags[i]) > 0
            /\ ~is_some(from_alias(FLAG_DATA, pairs.flags[i][1]))}}

IsUnknownVariant(name) ==
    ~is_some(from_alias(VARIANT_DATA, name)) /\ ~color_from_str(name).ok

\* The name tokens of the variants of a scene that are neither an alias of a
\* variant nor a colour literal.
UnknownVariantNames(pairs) ==
    UNION {UNION {{Span(CellPos(s, i), <<"var_name", j>>) : j \in
                      {j \in 1..Len(CellsAt(pairs.tilemap, s)[i].variants) :
                          IsUnknownVariant(CellsAt(pairs.tilemap, s)[i].variants[j].name)}} :
                  i \in 1..Len(CellsAt(pairs.tilemap, s))} :
           s \in StripIds(pairs.tilemap)}

HasUnknownName(pairs) ==
    UnknownFlagNames(pairs) # {} \/ UnknownVariantNames(pairs) # {}

\* The span is that of an unknown name token of the scene, and of nothing
\* else.
CoversUnknownName(span, pairs) ==
    IF span.token[1] \in {"flag_name", "flag_arg"}
    THEN span \in UnknownFlagNames(pairs)
    ELSE span \in UnknownVariantNames(pairs)

\* C11: parse fails for every scene that contains a flag name that is no
\* alias of a flag, or a variant name that is neither an alias of a variant
\* nor a colour literal, and the span of the error covers exactly an unknown
\* name token of the scene.
C11_UnknownNameRejected ==
    (pc = "done" /\ HasUnknownName(scene)) =>
        (~parsed.ok /\ CoversUnknownName(parsed.error.span, scene))

(***************************************************************************)
(* The invalid-argument stage: Variant::parse and Flag::parse on the       *)
(* tokens of a variant or flag, and parse on the scene that holds them.    *)
(***************************************************************************)
\* The variant of the scene's one tile, or the scene's one flag, as parse
\* hands it to Variant::parse or Flag::parse.
VariantCall(alias, args) ==
    [kind |-> "variant", name |-> unwrap(from_alias(VARIANT_DATA, alias)),
     arguments |-> args]

FlagCall(alias, args) ==
    [kind |-> "flag", name |-> unwrap(from_alias(FLAG_DATA, alias)),
     arguments |-> args]

InitInvalid ==
    /\ pc = "ready"
    /\ \/ \E name \in ArgNames, args \in SeqsUpTo(ArgTokens, MaxArgs) :
            /\ scene = [flags |-> <<>>, tilemap |-> Me(<<VariantPair(name, args)>>)]
            /\ call = Some(VariantCall(name, args))
       \/ \E name \in {"b", "tb"}, args \in SeqsUpTo(ArgTokens, MaxArgs) :
            /\ scene = [flags |-> << <<name>> \o args >>, tilemap |-> Me(<<>>)]
            /\ call = Some(FlagCall(name, args))
    /\ parsed = None
    /\ returned = None
    /\ FramesIdle /\ SolidifyIdle /\ ColorIdle /\ RenderIdle

VariantParse ==
    /\ is_some(call) /\ unwrap(call).kind = "variant" /\ returned = None
    /\ returned' = Some(variant_parse(unwrap(call).name, unwrap(call).arguments))
    /\ UNCHANGED <<pc, call, framesVars, solidifyVars, colorVars, parseVars, renderVars>>

FlagParse ==
    /\ is_some(call) /\ unwrap(call).kind = "flag" /\ returned = None
    /\ returned' = Some(flag_parse(unwrap(call).name, unwrap(call).arguments))
    /\ UNCHANGED <<pc, call, framesVars, solidifyVars, colorVars, parseVars, renderVars>>

SpecInvalid == InitInvalid /\ [][Parse \/ VariantParse \/ FlagParse]_vars

\* Whether the k-th declared argument type fails on the tokens: a type that
\* is not optional with no token at its place, or a token read by the type
\* that does not parse as it.
TypeFails(types, args, k) ==
    \/ types[k].shape = "scalar" /\ k > Len(args)
    \/ \E t \in Failing(types, args) :
          IF types[k].shape = "Vec" THEN t >= k ELSE t = k

FailedTypes(types, args) == {k \in 1..Len(types) : TypeFails(types, args, k)}

CallTypes ==
    LET data == IF unwrap(call).kind = "variant" THEN VARIANT_DATA ELSE FLAG_DATA
    IN  data[arguments_of(data, unwrap(call).name)].arguments

\* C12: Variant::parse and Flag::parse return InvalidArgument(kind, i, cause)
\* with i the zero-based position of the first declared argument type that
\* failed, be it for want of a token or for a token that does not parse, and
\* parse of the scene then returns an error.
C12_InvalidArgumentIndex ==
    (is_some(returned) /\ FailedTypes(CallTypes, unwrap(call).arguments) # {}) =>
        /\ ~unwrap(returned).ok
        /\ unwrap(returned).error.error = "InvalidArgument"
        /\ unwrap(returned).error.kind = unwrap(call).kind
        /\ unwrap(returned).error.index =
              Earliest(FailedTypes(CallTypes, unwrap(call).arguments)) - 1
        /\ (pc = "done" => ~parsed.ok)

\* Displace with one token: its second argument, which is not optional, has
\* no token left, Variant::parse has reported position 1 and parse has
\* returned an error.
C12_Witness ==
    /\ pc = "done" /\ ~parsed.ok
    /\ is_some(returned) /\ ~unwrap(returned).ok
    /\ unwrap(call).name = "Displace"
    /\ unwrap(call).arguments = <<"2">>
    /\ unwrap(returned).error.index = 1

(***************************************************************************)
(* The Option stage: Option<T>::parse on an iterator over argument tokens  *)
(* that has yielded some of them.                                          *)
(***************************************************************************)
\* The types that read one token.
TokenTypes == {"u8", "isize", "Color", "MetaKernel", "TilingDirection"}

InitOption ==
    /\ pc = "ready"
    /\ \E ty \in TokenTypes, args \in SeqsUpTo(ArgTokens, MaxArgs) :
         \E next \in 1..(Len(args) + 1) :
            call = Some([kind |-> "Option", ty |-> ty, arguments |-> args, next |-> next])
    /\ returned = None
    /\ FramesIdle /\ SolidifyIdle /\ ColorIdle /\ ParseIdle /\ RenderIdle

OptionParse ==
    /\ pc = "ready"
    /\ returned' = Some(parse_option(unwrap(call).ty, unwrap(call).arguments,
                                     unwrap(call).next))
    /\ pc' = "done"
    /\ UNCHANGED <<call, framesVars, solidifyVars, colorVars, parseVars, renderVars>>

SpecOption == InitOption /\ [][OptionParse]_vars

\* The token the iterator yields next, once T::from_str has read it.
NextToken == token_from_str(unwrap(call).ty, unwrap(call).arguments[unwrap(call).next])

\* C13: Option<T>::parse returns None without error and consumes nothing
\* when no token remains; when one remains it consumes exactly that token
\* and returns Some of the value parsed from it, or an error, never None,
\* when the token does not parse as T.
C13_OptionParse ==
    pc = "done" =>
        IF unwrap(call).next > Len(unwrap(call).arguments)
        THEN /\ unwrap(returned).result = Ok(None)
             /\ unwrap(returned).next = unwrap(call).next
        ELSE /\ unwrap(returned).next = unwrap(call).next + 1
             /\ IF NextToken.ok
                THEN unwrap(returned).result = Ok(Some(NextToken.value))
                ELSE ~unwrap(returned).result.ok

\* A token that does not parse as a u8 was present after one token already
\* read, and Option<u8>::parse returned an error and consumed it.
C13_Witness ==
    /\ pc = "done"
    /\ unwrap(call).ty = "u8"
    /\ unwrap(call).arguments = <<"2", "x", "2">>
    /\ unwrap(call).next = 2
    /\ ~unwrap(returned).result.ok
    /\ unwrap(returned).next = 3

(***************************************************************************)
(* The flag stage: scenes of one tile and a few flags, the same flag under *)
(* one alias or another and with one argument or another.                 *)
(***************************************************************************)
FlagPairs ==
    {<<"b", "red">>, <<"background", "blue">>, <<"b", "#010203">>,
     <<"tb">>, <<"tile_borders">>, <<"let">>}

InitFlags ==
    /\ pc = "ready"
    /\ \E flags \in SeqsUpTo(FlagPairs, MaxFlags) :
            scene = [flags |-> flags, tilemap |-> Me(<<>>)]
    /\ parsed = None
    /\ FramesIdle /\ SolidifyIdle /\ ColorIdle /\ ArgumentIdle /\ RenderIdle

SpecFlags == InitFlags /\ [][Parse]_vars

\* The flags of the scene that are aliases of the canonical flag name.
Occurrences(name) ==
    {i \in 1..Len(scene.flags) : from_alias(FLAG_DATA, scene.flags[i][1]) = Some(name)}

FlagNames == {FLAG_DATA[i].name : i \in 1..Len(FLAG_DATA)}

\* The value of the i-th flag of the scene, parsed on its own.
FlagValue(name, i) ==
    flag_parse(name, SubSeq(scene.flags[i], 2, Len(scene.flags[i]))).value

\* C14: when the same canonical flag occurs several times in a scene, under
\* the same or different aliases, RawScene.flags holds one entry for it, and
\* the value of that entry is the one parsed from its last occurrence; a
\* flag that does not occur has no entry.
C14_LastFlagWins ==
    Accepted =>
        \A name \in FlagNames :
            IF Occurrences(name) = {} THEN name \notin DOMAIN parsed.value.flags
            ELSE /\ name \in DOMAIN parsed.value.flags
                 /\ parsed.value.flags[name] = FlagValue(name, Latest(Occurrences(name)))

\* The background colour was given twice under different aliases and with
\* different colours, another flag between them, and the scene was accepted.
C14_Witness ==
    /\ Accepted
    /\ scene.flags = << <<"b", "red">>, <<"tb">>, <<"background", "blue">> >>
    /\ FlagValue("BackgroundColor", 1) # FlagValue("BackgroundColor", 3)
    /\ DOMAIN parsed.value.flags = {"BackgroundColor", "ConnectBorders"}

(***************************************************************************)
(* The escape stage: tiles whose names hold escape sequences.              *)
(***************************************************************************)
\* The intermediary character \x00 of unescape, which no name of a scene
\* holds; written as a form feed.
NUL == "\f"

\* str::replace: every match of `from`, left to right, none overlapping.
RECURSIVE replace(_, _, _)
replace(s, from, to) ==
    IF Len(s) < Len(from) THEN s
    ELSE IF SubSeq(s, 1, Len(from)) = from
    THEN to \o replace(SubSeq(s, Len(from) + 1, Len(s)), from, to)
    ELSE SubSeq(s, 1, 1) \o replace(SubSeq(s, 2, Len(s)), from, to)

\* unescape: the chain of replacements.
unescape(string) ==
    replace(replace(replace(replace(replace(replace(string,
        "\\\\", NUL), "\\n", "\n"), "\\r", "\r"), "\\t", "\t"), "\\", ""), NUL, "\\")

\* Tile names as the scene text spells them: plain, with an escaped space,
\* newline, carriage return, tab and backslash, and with an escaped
\* backslash before the letter n.
EscapedNames ==
    {"baba", "tile\\ name", "a\\nb", "a\\rb", "a\\tb", "a\\\\b", "a\\\\nb"}

EscapedCells ==
    {Cell(None, name, variants) :
        name \in EscapedNames, variants \in {<<>>, <<VariantPair("red", <<>>)>>}}

InitEscapes ==
    /\ pc = "ready"
    /\ \E main \in NonEmptySeqsUpTo(EscapedCells, MaxCells) :
            scene = [flags |-> <<>>, tilemap |-> << << <<main>> >> >>]
    /\ parsed = None
    /\ FramesIdle /\ SolidifyIdle /\ ColorIdle /\ ArgumentIdle /\ RenderIdle

SpecEscapes == InitEscapes /\ [][Parse]_vars

\* C15: for every scene that parse accepts, the tile names stored in the
\* RawScene have each escape sequence replaced by the character it denotes,
\* an escaped backslash before n, r or t staying a backslash before that
\* letter: the stored name is the unescaped name of the cell.
C15_NamesUnescaped ==
    Accepted =>
        \A i \in 1..Len(scene.tilemap[1][1][1]) :
            /\ CellPos(<<1, 1, 1>>, i) \in DOMAIN Objects
            /\ Objects[CellPos(<<1, 1, 1>>, i)].name =
                  unescape(scene.tilemap[1][1][1][i].name)

(***************************************************************************)
(* The canonical name, the residual variants and the frame of one tile.    *)
(***************************************************************************)
\* The tile of a scene of one tile, before and after solidify.
RawOrigin == raw.map.objects[Origin]
SkeletonOrigin == skeletal.value.map.objects[Origin]

Solidified == pc = "done" /\ ~skeletal.panicked

StripLeading(prefix, name) ==
    IF Len(name) >= Len(prefix) /\ SubSeq(name, 1, Len(prefix)) = prefix
    THEN SubSeq(name, Len(prefix) + 1, Len(name)) ELSE name

\* The table of canonical names by tag and default mode.
NameTable(tag, mode, name) ==
    CASE tag = Some("Text") /\ mode = "Text" -> StripLeading("text_", name)
      [] (tag = Some("Text") /\ mode # "Text") \/ (tag = None /\ mode = "Text") ->
            "text_" \o name
      [] tag = Some("Glyph") /\ mode = "Glyph" -> StripLeading("glyph_", name)
      [] (tag = Some("Glyph") /\ mode # "Glyph") \/ (tag = None /\ mode = "Glyph") ->
            "glyph_" \o name
      [] tag = None /\ mode = "Tile" -> name

\* The skeleton data of a tile of the given canonical name.
DataOf(name) ==
    IF name \in DOMAIN db THEN [kind |-> "Existing", data |-> db[name]]
    ELSE [kind |-> "Generative", name |-> name]

RECURSIVE Others(_)
\* The variants of a list that set no frame, in the order of the list.
Others(variants) ==
    IF variants = <<>> THEN <<>>
    ELSE IF Head(variants).name \in FrameSetting THEN Others(Tail(variants))
    ELSE <<Head(variants)>> \o Others(Tail(variants))

InitSleep ==
    /\ pc = "ready"
    /\ \/ raw = PlainTile("baba", None, <<Variant("Sleep", <<>>)>>)
       \/ \E f \in U8 :
            raw = PlainTile("baba", None,
                            <<Variant("AnimationFrame", <<f>>), Variant("Sleep", <<>>)>>)
    /\ db = EmptyDb /\ default = "Tile" /\ easter_egg_tiles = {}
    /\ skeletal = None
    /\ FramesIdle /\ ColorIdle /\ ParseIdle /\ ArgumentIdle /\ RenderIdle

SpecSleep == InitSleep /\ [][Solidify]_vars

\* The frame the variants before the last one of the tile have set: that of
\* the AnimationFrame variant, or 0 when there is none.
CurrentFrame ==
    IF Len(RawOrigin.variants) = 1 THEN 0 ELSE RawOrigin.variants[1].args[1]

\* C18: for every current frame f in 0..=255 (0 when no earlier variant of
\* the tile set a frame), Sleep sets the frame pair to primary (f - 1) mod 32,
\* which is 31 for f = 0, and fallback f.
C18_SleepFrame ==
    (pc = "done" /\ RawOrigin.variants[Len(RawOrigin.variants)].name = "Sleep") =>
        /\ ~skeletal.panicked
        /\ SkeletonOrigin.animation_frame =
              <<IF CurrentFrame = 0 THEN 31 ELSE (CurrentFrame - 1) % 32, CurrentFrame>>

\* A tile with no frame set was put to sleep: primary 31, fallback 0.
C18_Witness ==
    /\ Solidified
    /\ RawOrigin.variants = <<Variant("Sleep", <<>>)>>
    /\ SkeletonOrigin.animation_frame = <<31, 0>>

(***************************************************************************)
(* The animation stage: one tile whose frame is unset or set to any u8,    *)
(* and then moved on by any cycle.                                         *)
(***************************************************************************)
InitAnimation ==
    /\ pc = "ready"
    /\ \E c \in U8 :
         \/ raw = PlainTile("baba", None, <<Variant("Animation", <<c>>)>>)
         \/ \E f \in U8 :
              raw = PlainTile("baba", None,
                              <<Variant("AnimationFrame", <<f>>), Variant("Animation", <<c>>)>>)
    /\ db = EmptyDb /\ default = "Tile" /\ easter_egg_tiles = {}
    /\ skeletal = None
    /\ FramesIdle /\ ColorIdle /\ ParseIdle /\ ArgumentIdle /\ RenderIdle

SpecAnimation == InitAnimation /\ [][Solidify]_vars

\* The cycle of the tile's last variant.
Cycle == RawOrigin.variants[Len(RawOrigin.variants)].args[1]

\* C19: for every current primary frame f (0 when unset) and every cycle c in
\* 0..=255, Animation(c) yields a defined frame pair whose two components are
\* both f + c.
C19_AnimationAdds ==
    (pc = "done" /\ RawOrigin.variants[Len(RawOrigin.variants)].name = "Animation") =>
        /\ ~skeletal.panicked
        /\ SkeletonOrigin.animation_frame = <<CurrentFrame + Cycle, CurrentFrame + Cycle>>

(***************************************************************************)
(* The frame stage: into_frame on every mask.                              *)
(***************************************************************************)
IntoFrame ==
    /\ pc = "ready"
    /\ frames' = Returned(into_frame(mask))
    /\ pc' = "done"
    /\ UNCHANGED <<mask, solidifyVars, colorVars, parseVars, argumentVars, renderVars>>

SpecFrame == InitFrames /\ [][IntoFrame]_vars

\* Every diagonal bit of m that is set has both adjacent cardinal bits set.
DiagonalsBacked(m) == Normalized(m) = m

BitValue(m, flag) == (m \div flag) % 2

\* C20: into_frame returns Some exactly for the 47 masks in which every set
\* diagonal bit has both adjacent cardinal bits set, maps them one-to-one
\* onto 0..=46, and maps the 16 masks of cardinal bits only onto 0..=15 with
\* frame = RIGHT + 2*UP + 4*LEFT + 8*DOWN; every other mask gives None.
C20_IntoFrameTable ==
    pc = "done" =>
        /\ Cardinality({m \in U8 : DiagonalsBacked(m)}) = 47
        /\ is_some(frames.value) <=> DiagonalsBacked(mask)
        /\ is_some(frames.value) =>
              /\ unwrap(frames.value) \in 0..46
              /\ \A m \in U8 : (m # mask /\ DiagonalsBacked(m)) =>
                                  into_frame(m) # frames.value
        /\ mask % 16 = 0 =>
              frames.value = Some(BitValue(mask, RIGHT) + 2 * BitValue(mask, UP)
                                  + 4 * BitValue(mask, LEFT) + 8 * BitValue(mask, DOWN))

\* into_frame has given the first frame past 15 to the mask of RIGHT, UP and
\* the diagonal between them.
C20_Witness ==
    /\ pc = "done"
    /\ mask = BitOr(BitOr(RIGHT, UP), UPRIGHT)
    /\ frames = Returned(Some(16))

(***************************************************************************)
(* The renderer (src/src/renderer/mod.rs).  An image is named by the file  *)
(* it was decoded from.  Every function that may touch the cache returns   *)
(* the cache as it leaves it and the lookups and opens it made.            *)
(***************************************************************************)
AssetPath == "assets"

\* Display of an unsigned integer.
RECURSIVE format_decimal(_)
format_decimal(n) ==
    IF n < 10 THEN CharAt(Digits, n + 1)
    ELSE format_decimal(n \div 10) \o CharAt(Digits, (n % 10) + 1)

\* What lies at a path under asset_path: an image file, a file that is no
\* image, or a file that may not be read.  A path that is not listed does
\* not exist.
ImageFile(image) == [file |-> "image", image |-> image]
GarbageFile == [file |-> "garbage"]
DeniedFile == [file |-> "denied"]

IoError(kind) == [kind |-> kind]

\* A cache lookup that found the path, with the image it gave, and the
\* opening of a file, with what came of it.
Hit(path, image) == [op |-> "hit", path |-> path, result |-> Ok(image)]
Open(path, result) == [op |-> "open", path |-> path, result |-> result]

\* ImageReader::open(path)
reader_open(path, files) ==
    IF path \notin DOMAIN files THEN Err(IoError("NotFound"))
    ELSE IF files[path].file = "denied" THEN Err(IoError("PermissionDenied"))
    ELSE Ok(files[path])

\* The closure imgen of open_cached: open, decode, into_rgba8.
imgen(path, files) ==
    LET with_reader(reader) ==
            IF ~reader.ok THEN reader
            ELSE IF reader.value.file = "garbage" THEN Err(IoError("Other"))
            ELSE Ok(reader.value.image)
    IN  with_reader(reader_open(path, files))

\* HashMap::entry(key).or_insert(value)
or_insert(map, key, value) ==
    IF key \in DOMAIN map THEN map
    ELSE [k \in DOMAIN map \cup {key} |-> IF k = key THEN value ELSE map[k]]

\* open_cached, were a lookup that finds the path to take the entry out.
open_cached_evicting(path, cached, files) ==
    IF is_some(cached) /\ path \in DOMAIN unwrap(cached)
    THEN [result |-> Ok(unwrap(cached)[path]),
          cache |-> Some([k \in DOMAIN unwrap(cached) \ {path} |-> unwrap(cached)[k]]),
          events |-> <<Hit(path, unwrap(cached)[path])>>]
    ELSE LET with_image(image) ==
                 [result |-> image,
                  cache |-> IF is_some(cached) /\ image.ok
                            THEN Some(or_insert(unwrap(cached), path, image.value))
                            ELSE cached,
                  events |-> <<Open(path, image)>>]
         IN  with_image(imgen(path, files))

\* open_cached, were it to open the file whether or not the cache holds the
\* path.
open_cached_always_opens(path, cached, files) ==
    LET with_image(image) ==
            [result |-> image,
             cache |-> IF is_some(cached) /\ image.ok
                       THEN Some(or_insert(unwrap(cached), path, image.value))
                       ELSE cached,
             events |-> <<Open(path, image)>>]
    IN  with_image(imgen(path, files))

\* open_cached: with a cache, entry(path).or_try_insert_with(imgen); without
\* one, imgen.
open_cached(path, cached, files) ==
    IF is_some(cached) /\ path \in DOMAIN unwrap(cached)
    THEN [result |-> Ok(unwrap(cached)[path]), cache |-> cached,
          events |-> <<Hit(path, unwrap(cached)[path])>>]
    ELSE LET with_image(image) ==
                 [result |-> image,
                  cache |-> IF is_some(cached) /\ image.ok
                            THEN Some(or_insert(unwrap(cached), path, image.value))
                            ELSE cached,
                  events |-> <<Open(path, image)>>]
         IN  with_image(imgen(path, files))

starts_with(s, prefix) ==
    Len(s) >= Len(prefix) /\ SubSeq(s, 1, Len(prefix)) = prefix

ends_with(s, suffix) ==
    Len(s) >= Len(suffix) /\ SubSeq(s, Len(s) - Len(suffix) + 1, Len(s)) = suffix

\* glob of asset_path/*/palette_path.png: the paths with one directory, of
\* any name, between the asset path and the file.
glob_palette(palette_path, files) ==
    LET head == AssetPath \o "/"
        tail == "/" \o palette_path \o ".png"
    IN  {path \in DOMAIN files :
            /\ starts_with(path, head) /\ ends_with(path, tail)
            /\ Len(path) > Len(head) + Len(tail)
            /\ \A i \in (Len(head) + 1)..(Len(path) - Len(tail)) : CharAt(path, i) # "/"}

\* resolve_palette: the first match of the glob, opened and decoded, and put
\* into the cache under the palette path.
resolve_palette(palette_path, cached, files) ==
    LET with_path(path) ==
            IF files[path].file = "denied"
            THEN [result |-> Err([error |-> "FailedOpen", path |-> path,
                                  cause |-> IoError("PermissionDenied")]),
                  cache |-> cached,
                  events |-> <<Open(path, Err(IoError("PermissionDenied")))>>]
            ELSE IF files[path].file = "garbage"
            THEN [result |-> Err([error |-> "FailedDecode", path |-> path]),
                  cache |-> cached, events |-> <<Open(path, Err(IoError("Other")))>>]
            ELSE [result |-> Ok(files[path].image),
                  cache |-> IF is_some(cached)
                            THEN Some(or_insert(unwrap(cached), palette_path,
                                                files[path].image))
                            ELSE cached,
                  events |-> <<Open(path, Ok(files[path].image))>>]
    IN  IF glob_palette(palette_path, files) = {}
        THEN [result |-> Err([error |-> "NoPalette", path |-> palette_path]),
              cache |-> cached, events |-> <<>>]
        ELSE with_path(CHOOSE path \in glob_palette(palette_path, files) : TRUE)

\* The sprite file of a tile: asset_path/directory/sprites/sprite_frame_wobble.png
sprite_file(existing, frame, wobble_frame) ==
    AssetPath \o "/" \o existing.directory \o "/sprites/" \o existing.sprite
        \o "_" \o format_decimal(frame) \o "_" \o format_decimal(wobble_frame) \o ".png"

\* The index into the wobble frames, were the wobble period left out.
frame_index_by_time(time_index, frames_per_wobble, len) == time_index % len

\* (time_index / frames_per_wobble) % frame_indices.len()
frame_index(time_index, frames_per_wobble, len) ==
    (time_index \div frames_per_wobble) % len

\* The first lines of handle_sprite: a division or a remainder by zero, or an
\* index past the end, panics.
wobble_frame_of(time_index, frames_per_wobble, frame_indices) ==
    IF frames_per_wobble = 0 \/ Len(frame_indices) = 0 THEN Panicked
    ELSE LET with_index(index) ==
                 IF index + 1 > Len(frame_indices) THEN Panicked
                 ELSE Returned(frame_indices[index + 1])
         IN  with_index(frame_index(time_index, frames_per_wobble, Len(frame_indices)))

\* The guard of the fallback arm, were every failure to lead to the fallback.
is_not_found_or_any(e) == TRUE

\* The guard of the fallback arm: e.kind() == io::ErrorKind::NotFound
is_not_found(e) == e.kind = "NotFound"

\* handle_sprite_variants: a Meta variant of size 0 is an error; once the
\* loop is through, the function reaches its todo!().
RECURSIVE handle_sprite_variants(_, _)
handle_sprite_variants(skel, i) ==
    IF i > Len(skel.variants) THEN Panicked
    ELSE IF skel.variants[i].name = "Meta"
            /\ unwrap_or(skel.variants[i].args[3], 1) = 0
    THEN Returned(Err([error |-> "SpriteInvalidVariant", span |-> skel.span,
                       variant |-> "Meta"]))
    ELSE handle_sprite_variants(skel, i + 1)

SpriteFailedOpen(span, e) == [error |-> "SpriteFailedOpen", span |-> span, cause |-> e]

\* handle_sprite: [result, cache, events].
handle_sprite(cached, files, pos, skel, frames_per_wobble, frame_indices) ==
    LET finish(sprite_cache, events) ==
            \* the sprite is loaded: handle_sprite_variants, then todo!()
            LET with_variants(variants) ==
                    [result |-> IF variants.panicked \/ ~variants.value.ok THEN variants
                                ELSE Panicked,
                     cache |-> sprite_cache, events |-> events]
            IN  with_variants(handle_sprite_variants(skel, 1))
        with_fallback(sprite_path, primary, fallback) ==
            IF ~fallback.result.ok
            THEN [result |-> Returned(Err(SpriteFailedOpen(skel.span, fallback.result.error))),
                  cache |-> fallback.cache,
                  events |-> primary.events \o fallback.events]
            ELSE finish(IF is_some(fallback.cache)
                        THEN Some(or_insert(unwrap(fallback.cache), sprite_path,
                                            fallback.result.value))
                        ELSE fallback.cache,
                        primary.events \o fallback.events)
        with_primary(sprite_path, fallback_path, primary) ==
            IF primary.result.ok THEN finish(primary.cache, primary.events)
            ELSE IF is_not_found(primary.result.error)
            THEN with_fallback(sprite_path, primary,
                               open_cached(fallback_path, primary.cache, files))
            ELSE [result |-> Returned(Err(SpriteFailedOpen(skel.span, primary.result.error))),
                  cache |-> primary.cache, events |-> primary.events]
        with_paths(sprite_path, fallback_path) ==
            with_primary(sprite_path, fallback_path, open_cached(sprite_path, cached, files))
        with_wobble(wobble_frame) ==
            IF wobble_frame.panicked
            THEN [result |-> Panicked, cache |-> cached, events |-> <<>>]
            ELSE IF skel.data.kind = "Existing"
            THEN with_paths(sprite_file(skel.data.data, skel.animation_frame[1],
                                        wobble_frame.value),
                            sprite_file(skel.data.data, skel.animation_frame[2],
                                        wobble_frame.value))
            ELSE \* generate_sprite
                 [result |-> Returned(Err([error |-> "SpriteNoTile", span |-> skel.span,
                                           name |-> skel.data.name])),
                  cache |-> cached, events |-> <<>>]
    IN  with_wobble(wobble_frame_of(pos.t, frames_per_wobble, frame_indices))

\* Ord for Position: z, then y, then x, then t.
position_less(a, b) ==
    \/ a.z < b.z
    \/ a.z = b.z /\ a.y < b.y
    \/ a.z = b.z /\ a.y = b.y /\ a.x < b.x
    \/ a.z = b.z /\ a.y = b.y /\ a.x = b.x /\ a.t < b.t

\* BTreeMap::into_iter: the keys in ascending order.
RECURSIVE into_iter(_)
into_iter(positions) ==
    IF positions = {} THEN <<>>
    ELSE LET first == CHOOSE p \in positions :
                         \A q \in positions \ {p} : position_less(p, q)
         IN  <<first>> \o into_iter(positions \ {first})

\* The map over the objects collected into a Result: the first error ends it;
\* with every sprite made, render reaches its todo!().
RECURSIVE collect_sprites(_, _, _, _, _, _, _, _)
collect_sprites(objects, order, i, cached, files, frames_per_wobble, frame_indices, events) ==
    IF i > Len(order) THEN [result |-> Panicked, cache |-> cached, events |-> events]
    ELSE LET with_sprite(sprite) ==
                 IF sprite.result.panicked \/ ~sprite.result.value.ok
                 THEN [result |-> sprite.result, cache |-> sprite.cache,
                       events |-> events \o sprite.events]
                 ELSE collect_sprites(objects, order, i + 1, sprite.cache, files,
                                      frames_per_wobble, frame_indices,
                                      events \o sprite.events)
         IN  with_sprite(handle_sprite(cached, files, order[i], objects[order[i]],
                                       frames_per_wobble, frame_indices))

InvalidFlag(name) == [error |-> "InvalidFlag", flag |-> name]

\* The wobble frames the flags give: Err(InvalidFlag) or the list.
wobble_frames_of(flags) ==
    IF "WobbleFrames" \in DOMAIN flags
    THEN LET wobbles == flags["WobbleFrames"].args[1]
         IN  IF Len(wobbles) = 0 THEN Err(InvalidFlag("WobbleFrames"))
             ELSE IF \E i \in 1..Len(wobbles) : wobbles[i] \notin 1..3
             THEN Err(InvalidFlag("WobbleFrames"))
             ELSE Ok(wobbles)
    ELSE Ok(<<1, 2, 3>>)

\* The wobble period the flags give: Err(InvalidFlag) or the period.
frames_per_wobble_of(flags, frame_indices) ==
    IF "DecoupleWobble" \in DOMAIN flags
    THEN IF flags["DecoupleWobble"].args[2] = 0 THEN Err(InvalidFlag("DecoupleWobble"))
         ELSE Ok(flags["DecoupleWobble"].args[2])
    ELSE Ok(Len(frame_indices))

\* render: [result, cache, events]; the result is Returned(Err(e)) or Panicked,
\* for the function ends in todo!().
render(skeletal_scene, cached, files) ==
    LET palette_path ==
            IF "Palette" \in DOMAIN skeletal_scene.flags
            THEN skeletal_scene.flags["Palette"].args[1] ELSE "default"
        with_palette(frame_indices, frames_per_wobble, palette) ==
            IF ~palette.result.ok
            THEN [result |-> Returned(palette.result), cache |-> palette.cache,
                  events |-> palette.events]
            ELSE collect_sprites(skeletal_scene.map.objects,
                                 into_iter(DOMAIN skeletal_scene.map.objects), 1,
                                 palette.cache, files, frames_per_wobble, frame_indices,
                                 palette.events)
        with_period(frame_indices, frames_per_wobble) ==
            IF ~frames_per_wobble.ok
            THEN [result |-> Returned(frames_per_wobble), cache |-> cached, events |-> <<>>]
            ELSE with_palette(frame_indices, frames_per_wobble.value,
                     IF is_some(cached) /\ palette_path \in DOMAIN unwrap(cached)
                     THEN [result |-> Ok(unwrap(cached)[palette_path]), cache |-> cached,
                           events |-> <<Hit(palette_path, unwrap(cached)[palette_path])>>]
                     ELSE resolve_palette(palette_path, cached, files))
        with_frames(frame_indices) ==
            IF ~frame_indices.ok
            THEN [result |-> Returned(frame_indices), cache |-> cached, events |-> <<>>]
            ELSE with_period(frame_indices.value,
                             frames_per_wobble_of(skeletal_scene.flags, frame_indices.value))
    IN  with_frames(wobble_frames_of(skeletal_scene.flags))

(***************************************************************************)
(* Inputs of the renderer.                                                 *)
(***************************************************************************)
\* The tile data of baba as an Existing skeleton carries it.
Baba == [directory |-> "vanilla", sprite |-> "baba", color |-> Paletted(0, 3)]

Existing(data) == [kind |-> "Existing", data |-> data]
Generative(name) == [kind |-> "Generative", name |-> name]

TileSkeleton(data, animation_frame, variants, pos) ==
    [data |-> data, animation_frame |-> animation_frame, variants |-> variants,
     span |-> Span(pos, <<"tile_name">>)]

\* Meta with a size and nothing else.
MetaOfSize(size) == Variant("Meta", <<None, None, Some(size)>>)

\* A scene of the tiles at the positions, under the flags.
SkeletalScene(objects, flags) ==
    [map |-> ObjectMap(1, 1, 1, objects), letters |-> FALSE, flags |-> flags]

OneTile(pos, tile) == [p \in {pos} |-> tile]

FlagMap(flags) == [name \in {f.name : f \in flags} |-> CHOOSE f \in flags : f.name = name]

\* The palette file and the sprite files of baba for frame 1 (the primary of
\* the tiles here) and frame 0 (their fallback), each wobble alike.
PaletteFile == AssetPath \o "/vanilla/default.png"

AssetTree(palette, primary, fallback) ==
    LET listed == {f \in {[path |-> PaletteFile, at |-> palette]}
                           \cup {[path |-> sprite_file(Baba, 1, w), at |-> primary] : w \in 1..3}
                           \cup {[path |-> sprite_file(Baba, 0, w), at |-> fallback] : w \in 1..3} :
                      f.at # "absent"}
        at(path) == (CHOOSE f \in listed : f.path = path).at
    IN  [path \in {f.path : f \in listed} |->
            CASE at(path) = "image" -> ImageFile(path)
              [] at(path) = "garbage" -> GarbageFile
              [] at(path) = "denied" -> DeniedFile]

(***************************************************************************)
(* The cache stage: renders one after the other on one cache, the files    *)
(* changing between them.                                                  *)
(***************************************************************************)
\* The number of renders that share a cache.
MaxRenders == 2

RenderStart == [op |-> "render", path |-> "", result |-> Ok("")]

Renders == Cardinality({i \in 1..Len(trace) : trace[i] = RenderStart})

\* Scenes of one tile of baba with primary frame 1 and fallback 0, with and
\* without a variant that render refuses, of a tile that has no data, and of
\* no tile; under no flags, an empty list of wobble frames, or one frame.
CacheScenes ==
    {SkeletalScene(objects, flags) :
        objects \in {OneTile(Origin, TileSkeleton(Existing(Baba), <<1, 0>>, <<>>, Origin)),
                     OneTile(Origin, TileSkeleton(Existing(Baba), <<1, 0>>,
                                                  <<MetaOfSize(0)>>, Origin)),
                     OneTile(Origin, TileSkeleton(Generative("me"), <<0, 0>>, <<>>, Origin)),
                     [p \in {} |-> None]},
        flags \in {FlagMap({}), FlagMap({Variant("WobbleFrames", << <<>> >>)}),
                   FlagMap({Variant("WobbleFrames", << <<2>> >>)})}}

CacheAssets ==
    {AssetTree("image", "image", "image"), AssetTree("image", "absent", "image"),
     AssetTree("image", "absent", "absent"), AssetTree("image", "absent", "denied"),
     AssetTree("absent", "absent", "image")}

NoImages == [path \in {} |-> ""]

InitCache ==
    /\ pc = "ready"
    /\ skel_scene \in CacheScenes
    /\ assets \in CacheAssets
    /\ cache \in {None, Some(NoImages)}
    /\ rendered = None
    /\ trace = <<>>
    /\ FramesIdle /\ SolidifyIdle /\ ColorIdle /\ ParseIdle /\ ArgumentIdle

\* One call of render.  A panic unwinds to the caller, who may go on, or
\* aborts the process, as the build has it.
Render ==
    /\ pc = "ready"
    /\ LET with_render(r) ==
               /\ rendered' = r.result
               /\ cache' = r.cache
               /\ trace' = (trace \o <<RenderStart>>) \o r.events
               /\ \E unwinds \in BOOLEAN :
                     pc' = IF r.result.panicked /\ ~unwinds THEN "aborted" ELSE "done"
       IN  with_render(render(skel_scene, cache, assets))
    /\ UNCHANGED <<skel_scene, assets, framesVars, solidifyVars, colorVars, parseVars, argumentVars>>

\* The caller hands the next scene to render, with the same cache; the files
\* may have changed meanwhile.
NextRender ==
    /\ pc = "done"
    /\ Renders < MaxRenders
    /\ skel_scene' \in CacheScenes
    /\ assets' \in CacheAssets
    /\ pc' = "ready"
    /\ UNCHANGED <<cache, rendered, trace, framesVars, solidifyVars, colorVars, parseVars, argumentVars>>

SpecCache == InitCache /\ [][Render \/ NextRender]_vars

\* The places of the trace where a file was not found and the next lookup or
\* open gave an image: a primary sprite missing, its fallback loaded.
FellBack ==
    {i \in 1..(Len(trace) - 1) :
        /\ trace[i].op = "open" /\ trace[i].result = Err(IoError("NotFound"))
        /\ trace[i + 1].op # "render" /\ trace[i + 1].result.ok}

\* C21: when a cache is supplied and the primary sprite file of a tile is
\* missing while its fallback loads, the cache from then on maps the primary
\* path to the fallback image, and every later lookup of that path, in the
\* same render or a later one that shares the cache, is answered from the
\* cache with that image, no file being opened.
C21_FallbackCached ==
    is_some(cache) =>
        \A i \in FellBack :
            /\ trace[i].path \in DOMAIN unwrap(cache)
            /\ unwrap(cache)[trace[i].path] = trace[i + 1].result.value
            /\ \A j \in (i + 2)..Len(trace) :
                  trace[j].path = trace[i].path =>
                      trace[j] = Hit(trace[i].path, trace[i + 1].result.value)

\* The primary was missing in one render and its fallback loaded; in the next
\* render the primary file was there, and the lookup was answered from the
\* cache with the fallback image.
C21_Witness ==
    /\ is_some(cache) /\ pc = "done"
    /\ sprite_file(Baba, 1, 1) \in DOMAIN assets
    /\ \E i \in FellBack : \E j \in (i + 2)..Len(trace) :
          /\ trace[i].path = sprite_file(Baba, 1, 1)
          /\ trace[j] = Hit(trace[i].path, sprite_file(Baba, 0, 1))

\* C28: render never removes or replaces a cache entry: every path in the
\* cache before a render is in it afterwards with the same image, whether
\* the render returns or panics, and a render that fails with InvalidFlag
\* leaves the cache exactly as it was.
C28_CacheOnlyGrows ==
    [][/\ is_some(cache) <=> is_some(cache')
       /\ is_some(cache) =>
             \A path \in DOMAIN unwrap(cache) :
                /\ path \in DOMAIN unwrap(cache')
                /\ unwrap(cache')[path] = unwrap(cache)[path]
       /\ (pc = "ready" /\ ~rendered'.panicked /\ rendered'.value.error.error = "InvalidFlag")
             => cache' = cache]_vars

\* A render found the palette in the cache, put a sprite beside it, and
\* the palette is still there.
C28_Witness ==
    /\ pc = "done" /\ is_some(cache)
    /\ \E i \in 1..Len(trace) : trace[i].op = "hit" /\ trace[i].path = "default"
    /\ trace[Len(trace)].op = "open" /\ trace[Len(trace)].result.ok
    /\ {"default", trace[Len(trace)].path} \subseteq DOMAIN unwrap(cache)

(***************************************************************************)
(* The sprite stage: one render of one tile that has data, over every      *)
(* state of its primary and its fallback file.                             *)
(***************************************************************************)
FileStates == {"image", "absent", "garbage", "denied"}

\* One tile of baba with different or equal primary and fallback frames,
\* under the default wobble frames or a list of one.
SpriteScenes ==
    {SkeletalScene(OneTile(Origin, TileSkeleton(Existing(Baba), animation_frame, <<>>, Origin)), flags) :
        animation_frame \in {<<1, 0>>, <<0, 0>>},
        flags \in {FlagMap({}), FlagMap({Variant("WobbleFrames", << <<2>> >>)}),
                   FlagMap({Variant("WobbleFrames", << <<3, 1>> >>)})}}

InitSprites ==
    /\ pc = "ready"
    /\ skel_scene \in SpriteScenes
    /\ \E primary \in FileStates, fallback \in FileStates :
          assets = AssetTree("image", primary, fallback)
    /\ cache \in {None, Some(NoImages)}
    /\ rendered = None
    /\ trace = <<>>
    /\ FramesIdle /\ SolidifyIdle /\ ColorIdle /\ ParseIdle /\ ArgumentIdle

SpecSprites == InitSprites /\ [][Render]_vars

\* The tile of the scene, the wobble frame of its cell, and its two paths.
TheTile == skel_scene.map.objects[Origin]
TheWobble == wobble_frames_of(skel_scene.flags).value[1]
PrimaryPath == sprite_file(TheTile.data.data, TheTile.animation_frame[1], TheWobble)
FallbackPath == sprite_file(TheTile.data.data, TheTile.animation_frame[2], TheWobble)

\* What opening the file at a path comes to, read off the asset tree.
Opening(path) ==
    IF path \notin DOMAIN assets THEN Err(IoError("NotFound"))
    ELSE CASE assets[path].file = "image" -> Ok(assets[path].image)
           [] assets[path].file = "garbage" -> Err(IoError("Other"))
           [] assets[path].file = "denied" -> Err(IoError("PermissionDenied"))

\* The file events of the render after the palette was opened.
SpriteEvents == SubSeq(trace, 3, Len(trace))

\* C22: for a tile that has data, render first opens the file of the primary
\* frame; only when that open fails with NotFound it opens the file of the
\* fallback frame, with the same wobble frame; any other failure of the
\* primary, and any failure of the fallback, is returned as SpriteFailedOpen
\* with the span of the tile, and nothing more is opened.
C22_PrimaryThenFallback ==
    pc # "ready" =>
        LET primary == Opening(PrimaryPath)
            fallback == Opening(FallbackPath)
            failed(e) == Returned(Err(SpriteFailedOpen(TheTile.span, e.error)))
        IN  IF primary.ok
            THEN /\ SpriteEvents = <<Open(PrimaryPath, primary)>>
                 /\ rendered = Panicked
            ELSE IF primary.error = IoError("NotFound")
            THEN /\ SpriteEvents = <<Open(PrimaryPath, primary), Open(FallbackPath, fallback)>>
                 /\ rendered = IF fallback.ok THEN Panicked ELSE failed(fallback)
            ELSE /\ SpriteEvents = <<Open(PrimaryPath, primary)>>
                 /\ rendered = failed(primary)

\* The primary is there but cannot be read while the fallback is sound: the
\* render failed on the primary and never opened the fallback.
C22_Witness ==
    /\ pc = "done"
    /\ PrimaryPath # FallbackPath
    /\ Opening(PrimaryPath) = Err(IoError("PermissionDenied"))
    /\ Opening(FallbackPath).ok
    /\ rendered = Returned(Err(SpriteFailedOpen(TheTile.span, IoError("PermissionDenied"))))
    /\ Len(SpriteEvents) = 1

(***************************************************************************)
(* The wobble stage: one render of one tile whose files are all there, at  *)
(* every cell time and under the wobble flags.                             *)
(***************************************************************************)
\* The largest cell time of the tile.
MaxTime == 5

\* No list, the empty list, lists within 1..=3 and lists with a value outside.
WobbleLists == {None, Some(<<>>), Some(<<2>>), Some(<<3, 1>>), Some(<<3, 3, 2, 1>>),
                Some(<<1, 4>>), Some(<<0>>)}

\* No DecoupleWobble, or one with the wobble period.
WobblePeriods == {None, Some(0), Some(1), Some(2), Some(3)}

WobbleFlags(wobbles, period) ==
    FlagMap({Variant("WobbleFrames", <<unwrap(wobbles)>>) : w \in {wobbles} \ {None}}
            \cup {Variant("DecoupleWobble", <<1, unwrap(period)>>) : p \in {period} \ {None}})

InitWobble ==
    /\ pc = "ready"
    /\ \E wobbles \in WobbleLists, period \in WobblePeriods, t \in 0..MaxTime :
          skel_scene = SkeletalScene(
                           OneTile(Position(0, 0, 0, t), TileSkeleton(Existing(Baba), <<1, 0>>, <<>>, Position(0, 0, 0, t))),
                           WobbleFlags(wobbles, period))
    /\ assets = AssetTree("image", "image", "image")
    /\ cache = None
    /\ rendered = None
    /\ trace = <<>>
    /\ FramesIdle /\ SolidifyIdle /\ ColorIdle /\ ParseIdle /\ ArgumentIdle

SpecWobble == InitWobble /\ [][Render]_vars

\* The cell time of the one tile of the scene.
CellTime == (CHOOSE pos \in DOMAIN skel_scene.map.objects : TRUE).t

\* The wobble frames and the wobble period in force, defaults included.
WobbleFramesInForce ==
    IF "WobbleFrames" \in DOMAIN skel_scene.flags
    THEN skel_scene.flags["WobbleFrames"].args[1] ELSE <<1, 2, 3>>
WobblePeriodInForce ==
    IF "DecoupleWobble" \in DOMAIN skel_scene.flags
    THEN skel_scene.flags["DecoupleWobble"].args[2] ELSE Len(WobbleFramesInForce)

FlagsRefused ==
    \/ WobbleFramesInForce = <<>>
    \/ \E i \in 1..Len(WobbleFramesInForce) : WobbleFramesInForce[i] \notin 1..3
    \/ WobblePeriodInForce = 0

\* C23: render returns InvalidFlag when WobbleFrames is empty or holds a
\* value outside 1..=3, or when the wobble period of DecoupleWobble is 0;
\* under every other setting and at every cell time t the sprite is opened
\* with the wobble frame wobble_frames[(t / wobble_period) mod len], which is
\* within 1..=3, the period defaulting to the length of the list and the
\* list to [1, 2, 3]; no division by zero, no index out of range.
C23_WobbleSelection ==
    pc # "ready" =>
        IF FlagsRefused
        THEN /\ ~rendered.panicked /\ ~rendered.value.ok
             /\ rendered.value.error.error = "InvalidFlag"
        ELSE LET selected == WobbleFramesInForce[
                                 ((CellTime \div WobblePeriodInForce) % Len(WobbleFramesInForce)) + 1]
             IN  /\ selected \in 1..3
                 /\ trace[Len(trace)] =
                       Open(sprite_file(Baba, 1, selected), Ok(sprite_file(Baba, 1, selected)))

\* Two wobble frames held for two cell times each: at time 3 the second of
\* them is the one opened.
C23_Witness ==
    /\ pc = "done"
    /\ WobbleFramesInForce = <<3, 1>> /\ WobblePeriodInForce = 2 /\ CellTime = 3
    /\ trace[Len(trace)].path = sprite_file(Baba, 1, 1)

\* The sprite of the one tile loads: its primary file is an image, or is
\* absent while the fallback is an image.
SpritesLoad ==
    \/ Opening(PrimaryPath).ok
    \/ Opening(PrimaryPath) = Err(IoError("NotFound")) /\ Opening(FallbackPath).ok

\* C24: for a scene with valid flags whose sprites all load, render returns
\* a RenderedScene, and within each of its frames the sprites have distinct
\* z_order values that follow the order of their cells by z, then y, then x.
C24_SceneRendered ==
    (pc # "ready" /\ SpritesLoad) =>
        /\ ~rendered.panicked
        /\ rendered.value.ok
        /\ \A frame \in DOMAIN rendered.value.value.frames :
              LET sprites == rendered.value.value.frames[frame].sprites
              IN  \A i \in DOMAIN sprites, j \in DOMAIN sprites :
                      position_less(sprites[i].cell, sprites[j].cell)
                          => sprites[i].z_order < sprites[j].z_order

(***************************************************************************)
(* The database loader: load_vanilla_objlist merges the tiles of the       *)
(* editor object list into the tiles the database holds.                   *)
(***************************************************************************)
strip_suffix(s, suffix) ==
    IF Len(s) >= Len(suffix) /\ SubSeq(s, Len(s) - Len(suffix) + 1, Len(s)) = suffix
    THEN Some(SubSeq(s, 1, Len(s) - Len(suffix)))
    ELSE None

\* str::trim_matches(ch): the string without the run of ch at either end.
RECURSIVE trim_matches(_, _)
trim_matches(s, ch) ==
    IF Len(s) > 0 /\ CharAt(s, 1) = ch THEN trim_matches(SubSeq(s, 2, Len(s)), ch)
    ELSE IF Len(s) > 0 /\ CharAt(s, Len(s)) = ch THEN trim_matches(SubSeq(s, 1, Len(s) - 1), ch)
    ELSE s

\* str::trim, for the white space the lists here have: blanks.
trim(s) == trim_matches(s, " ")

\* str::split(','): the pieces between the commas, in order.
RECURSIVE split(_, _, _)
split(s, i, start) ==
    IF i > Len(s) THEN <<SubSeq(s, start, Len(s))>>
    ELSE IF CharAt(s, i) = "," THEN <<SubSeq(s, start, i - 1)>> \o split(s, i + 1, i + 1)
    ELSE split(s, i + 1, start)

\* str::split_once(','): the parts before and after the first comma.
split_once(s) ==
    LET commas == {i \in 1..Len(s) : CharAt(s, i) = ","}
    IN  IF commas = {} THEN None
        ELSE LET first == CHOOSE i \in commas : \A j \in commas : i <= j
             IN  Some(<<SubSeq(s, 1, first - 1), SubSeq(s, first + 1, Len(s))>>)

\* i8::from_str
i8_from_str(s) ==
    LET with_value(value) ==
            IF ~value.ok THEN value
            ELSE IF value.value < -128 \/ value.value > 127 THEN Err("ParseIntError")
            ELSE value
    IN  with_value(isize_from_str(s))

\* Database::parse_lua_vec2: Option<(u8, u8)>
parse_lua_vec2(col) ==
    LET inner == IF is_some(strip_prefix(col, "{"))
                 THEN strip_suffix(unwrap(strip_prefix(col, "{")), "}") ELSE None
        halves == IF is_some(inner) THEN split_once(unwrap(inner)) ELSE None
        with_numbers(x, y) == IF x.ok /\ y.ok THEN Some(<<x.value, y.value>>) ELSE None
    IN  IF ~is_some(halves) THEN None
        ELSE with_numbers(u8_from_str(trim(unwrap(halves)[1])),
                          u8_from_str(trim(unwrap(halves)[2])))

\* Database::parse_lua_strings: Option<BTreeSet<String>>
parse_lua_strings(col) ==
    LET inner == IF is_some(strip_prefix(col, "{"))
                 THEN strip_suffix(unwrap(strip_prefix(col, "{")), "}") ELSE None
        with_pieces(pieces) ==
            {trim_matches(trim(pieces[i]), "\"") : i \in 1..Len(pieces)}
    IN  IF ~is_some(inner) THEN None
        ELSE Some(with_pieces(split(unwrap(inner), 1, 1)))

\* Tiling::try_from(i8), by the discriminants of the enum.
tiling_try_from(n) ==
    CASE n = -1 -> Ok("None")
      [] n = 0 -> Ok("Directional")
      [] n = 1 -> Ok("AutoTiled")
      [] n = 2 -> Ok("Character")
      [] n = 3 -> Ok("AnimDir")
      [] n = 4 -> Ok("Animated")
      [] OTHER -> Err("no tiling")

InvalidLua(message) == [error |-> "InvalidLua", message |-> message]

\* props.get(key)
get(props, key) == IF key \in DOMAIN props THEN Some(props[key]) ELSE None

\* An optional property and what its parser made of it:
\* .map(parser).map(|opt| opt.ok_or(error)).transpose()
transposed(value, parsed_value, message) ==
    IF ~is_some(value) THEN Ok(None)
    ELSE IF is_some(parsed_value) THEN Ok(parsed_value)
    ELSE Err(InvalidLua(message))

\* Database::parse_data_from_strings: Ok(<<name, data>>) or Err(InvalidLua).
parse_data_from_strings(object_id, props) ==
    LET colour == IF "colour_active" \in DOMAIN props THEN get(props, "colour_active")
                  ELSE get(props, "colour")
        color_xy == IF is_some(colour) THEN parse_lua_vec2(unwrap(colour)) ELSE None
        tiling_num == IF "tiling" \in DOMAIN props /\ i8_from_str(props["tiling"]).ok
                      THEN Some(i8_from_str(props["tiling"]).value) ELSE None
        tile_index == transposed(get(props, "tile"), parse_lua_vec2(unwrap_or(get(props, "tile"), "")),
                                 "invalid tile index")
        grid_index == transposed(get(props, "grid"), parse_lua_vec2(unwrap_or(get(props, "grid"), "")),
                                 "invalid grid index")
        layer == IF "layer" \notin DOMAIN props THEN Ok(None)
                 ELSE IF u8_from_str(props["layer"]).ok
                 THEN Ok(Some(u8_from_str(props["layer"]).value))
                 ELSE Err(InvalidLua("invalid layer number"))
        tags == transposed(get(props, "tags"), parse_lua_strings(unwrap_or(get(props, "tags"), "")),
                           "invalid tag list")
    IN  IF "name" \notin DOMAIN props THEN Err(InvalidLua("no name"))
        ELSE IF ~is_some(color_xy) THEN Err(InvalidLua("no color"))
        ELSE IF ~is_some(tiling_num) THEN Err(InvalidLua("invalid tiling"))
        ELSE IF ~tiling_try_from(unwrap(tiling_num)).ok THEN Err(InvalidLua("no tiling"))
        ELSE IF ~tile_index.ok THEN tile_index
        ELSE IF ~grid_index.ok THEN grid_index
        ELSE IF ~layer.ok THEN layer
        ELSE IF ~tags.ok THEN tags
        ELSE Ok(<<trim_matches(props["name"], "\""),
                  [color |-> Paletted(unwrap(color_xy)[1], unwrap(color_xy)[2]),
                   sprite |-> trim_matches(IF "sprite" \in DOMAIN props THEN props["sprite"]
                                           ELSE props["name"], "\""),
                   directory |-> "vanilla",
                   tiling |-> tiling_try_from(unwrap(tiling_num)).value,
                   author |-> trim_matches(unwrap_or(get(props, "author"), "Hempuli"), "\""),
                   tile_index |-> tile_index.value,
                   grid_index |-> grid_index.value,
                   object_id |-> object_id,
                   layer |-> layer.value,
                   tags |-> unwrap_or(tags.value, {})]>>)

\* Option::or
or(a, b) == IF is_some(a) THEN a ELSE b

\* TileData::default()
DefaultTileData ==
    [color |-> Paletted(0, 3), sprite |-> "error", directory |-> "vanilla",
     tiling |-> "None", author |-> "Hempuli", tile_index |-> None, grid_index |-> None, object_id |-> None,
     layer |-> None, tags |-> {}]

\* The merge that lets the editor's optional fields displace the entry's.
merged_editor_wins(entry, data) ==
    [color |-> data.color, sprite |-> data.sprite, directory |-> data.directory,
     tiling |-> data.tiling, author |-> data.author,
     tile_index |-> data.tile_index, grid_index |-> data.grid_index,
     object_id |-> data.object_id, layer |-> data.layer,
     tags |-> data.tags]

\* The entry load_vanilla_objlist writes for a name: *entry = TileData {..}.
merged(entry, data) ==
    [color |-> data.color, sprite |-> data.sprite, directory |-> data.directory,
     tiling |-> data.tiling, author |-> data.author,
     tile_index |-> or(data.tile_index, entry.tile_index),
     grid_index |-> or(data.grid_index, entry.grid_index),
     object_id |-> or(data.object_id, entry.object_id),
     layer |-> or(data.layer, entry.layer),
     tags |-> data.tags \cup entry.tags]

\* The tiles of the list that are not marked does_not_exist, parsed and
\* collected into a map by name, a later tile replacing an earlier one of
\* its name; the first error ends the collection.
RECURSIVE collect_editor_tiles(_, _, _)
collect_editor_tiles(tile_props, i, tiles) ==
    IF i > Len(tile_props) THEN Ok(tiles)
    ELSE IF "does_not_exist" \in DOMAIN tile_props[i]
    THEN collect_editor_tiles(tile_props, i + 1, tiles)
    ELSE LET with_data(parsed_data) ==
                 IF ~parsed_data.ok THEN parsed_data
                 ELSE collect_editor_tiles(tile_props, i + 1,
                          [name \in DOMAIN tiles \cup {parsed_data.value[1]} |->
                              IF name = parsed_data.value[1] THEN parsed_data.value[2]
                              ELSE tiles[name]])
         IN  with_data(parse_data_from_strings(None, tile_props[i]))

\* load_vanilla_objlist on the tiles the file lists: [result, tiles].
load_vanilla_objlist(self, tile_props) ==
    LET with_tiles(tiles) ==
            IF ~tiles.ok THEN [result |-> tiles, tiles |-> self]
            ELSE [result |-> Ok(<<>>),
                  tiles |-> [name \in DOMAIN self \cup DOMAIN tiles.value |->
                                IF name \in DOMAIN tiles.value
                                THEN merged(IF name \in DOMAIN self THEN self[name]
                                            ELSE DefaultTileData, tiles.value[name])
                                ELSE self[name]]]
    IN  with_tiles(collect_editor_tiles(tile_props, 1, [name \in {} |-> DefaultTileData]))

\* The most tiles in an editor object list.
MaxTiles == 2

\* A tile of the editor object list by its values: colour and the optional
\* tile and grid indices are pairs, tags a list, exists the absence of
\* does_not_exist.
EditorTile(name, colour, tiling, sprite, author, tile, grid, layer, tags, exists) ==
    [name |-> name, colour |-> colour, tiling |-> tiling, sprite |-> sprite,
     author |-> author, tile |-> tile, grid |-> grid, layer |-> layer,
     tags |-> tags, exists |-> exists]

EditorTiles ==
    {EditorTile("baba", <<0, 3>>, 2, None, None, Some(<<1, 0>>), Some(<<0, 1>>), Some(18),
                Some(<<"tag1", "tag2">>), TRUE),
     EditorTile("baba", <<4, 1>>, -1, Some("baba2"), Some("me"), None, None, None, None, TRUE),
     EditorTile("keke", <<2, 2>>, 1, None, None, None, Some(<<7, 12>>), None,
                Some(<<"tag3">>), TRUE),
     EditorTile("keke", <<2, 2>>, 1, None, None, None, None, Some(300), None, TRUE),
     EditorTile("wall", <<1, 1>>, 1, None, None, Some(<<9, 9>>), None, Some(1), None, FALSE)}

\* The text of a Lua string, of a pair and of a list of strings.
lua_string(s) == "\"" \o s \o "\""
lua_vec2(pair) == "{" \o format_decimal(pair[1]) \o ", " \o format_decimal(pair[2]) \o "}"
RECURSIVE lua_strings(_, _)
lua_strings(strings, i) ==
    IF i > Len(strings) THEN ""
    ELSE (IF i > 1 THEN "," ELSE "") \o lua_string(strings[i]) \o lua_strings(strings, i + 1)
lua_number(n) == IF n < 0 THEN "-" \o format_decimal(0 - n) ELSE format_decimal(n)

\* The properties the regular expressions of load_vanilla_objlist find in
\* the text of a tile: the keys that are set, each with its Lua text.
tile_props_of(tile) ==
    LET keys == {"name", "colour", "tiling"}
                    \cup (IF is_some(tile.sprite) THEN {"sprite"} ELSE {})
                    \cup (IF is_some(tile.author) THEN {"author"} ELSE {})
                    \cup (IF is_some(tile.tile) THEN {"tile"} ELSE {})
                    \cup (IF is_some(tile.grid) THEN {"grid"} ELSE {})
                    \cup (IF is_some(tile.layer) THEN {"layer"} ELSE {})
                    \cup (IF is_some(tile.tags) THEN {"tags"} ELSE {})
                    \cup (IF tile.exists THEN {} ELSE {"does_not_exist"})
    IN  [key \in keys |->
            CASE key = "name" -> lua_string(tile.name)
              [] key = "colour" -> lua_vec2(tile.colour)
              [] key = "tiling" -> lua_number(tile.tiling)
              [] key = "sprite" -> lua_string(unwrap(tile.sprite))
              [] key = "author" -> lua_string(unwrap(tile.author))
              [] key = "tile" -> lua_vec2(unwrap(tile.tile))
              [] key = "grid" -> lua_vec2(unwrap(tile.grid))
              [] key = "layer" -> lua_number(unwrap(tile.layer))
              [] key = "tags" -> "{" \o lua_strings(unwrap(tile.tags), 1) \o "}"
              [] key = "does_not_exist" -> "true"]

\* A tile as load_vanilla_values leaves it, and the databases of the stage.
ValuesTile(sprite, object_id, layer, tags) ==
    [color |-> Paletted(1, 4), sprite |-> sprite, directory |-> "vanilla",
     tiling |-> "Directional", author |-> "Hempuli", tile_index |-> Some(<<5, 5>>),
     grid_index |-> None, object_id |-> Some(object_id), layer |-> Some(layer),
     tags |-> tags]

NoTiles == [name \in {} |-> DefaultTileData]

Databases ==
    {NoTiles,
     [name \in {"baba", "wall"} |->
         IF name = "baba" THEN ValuesTile("baba_old", "object001", 3, {"old"})
         ELSE ValuesTile("wall", "object002", 14, {})],
     [name \in {"keke"} |-> ValuesTile("keke", "object003", 16, {"tag3", "old"})]}

InitObjlist ==
    /\ pc = "ready"
    /\ db \in Databases
    /\ \E tiles \in SeqsUpTo(EditorTiles, MaxTiles) :
          call = [i \in 1..Len(tiles) |-> tile_props_of(tiles[i])]
    /\ returned = None
    /\ raw = None /\ default = "Tile" /\ easter_egg_tiles = {} /\ skeletal = None
    /\ FramesIdle /\ ColorIdle /\ ParseIdle /\ RenderIdle

\* One call of load_vanilla_objlist on a file that lists the tiles.
LoadVanillaObjlist ==
    /\ pc = "ready"
    /\ LET with_loaded(loaded) ==
               /\ db' = loaded.tiles
               /\ returned' = loaded.result
       IN  with_loaded(load_vanilla_objlist(db, call))
    /\ pc' = "done"
    /\ UNCHANGED <<call, raw, default, easter_egg_tiles, skeletal,
                   framesVars, colorVars, parseVars, renderVars>>

SpecObjlist == InitObjlist /\ [][LoadVanillaObjlist]_vars

\* The tile with these properties, and the tiles of the list that exist.
TileOf(props) == CHOOSE tile \in EditorTiles : tile_props_of(tile) = props
Listed == {i \in 1..Len(call) : TileOf(call[i]).exists}
ListedNames == {TileOf(call[i]).name : i \in Listed}

\* The editor's tile of a name: the one listed last under it.
EditorEntry(name) ==
    TileOf(call[CHOOSE i \in Listed :
                   /\ TileOf(call[i]).name = name
                   /\ \A j \in Listed : TileOf(call[j]).name = name => j <= i])

\* What the database held for a name before: its entry, or the default.
Before(name) == IF name \in DOMAIN db THEN db[name] ELSE DefaultTileData

TilingNames == <<"None", "Directional", "AutoTiled", "Character", "AnimDir", "Animated">>

\* C25: after load_vanilla_objlist, for every tile name of the editor object
\* list (the tile listed last, when a name is listed twice) the database
\* entry has the editor tile's color, sprite, tiling and author; each of
\* tile_index, grid_index, object_id and layer is the editor's value when the
\* editor tile has one and else the value the database held before; tags
\* is the union of the editor's tags and the earlier ones; the entries of
\* other names are as they were.
C25_ObjlistMerge ==
    [][(pc = "ready" /\ returned'.ok) =>
          /\ DOMAIN db' = DOMAIN db \cup ListedNames
          /\ \A name \in DOMAIN db \ ListedNames : db'[name] = db[name]
          /\ \A name \in ListedNames :
                LET tile == EditorEntry(name)
                    entry == db'[name]
                IN  /\ entry.color = Paletted(tile.colour[1], tile.colour[2])
                    /\ entry.sprite = unwrap_or(tile.sprite, tile.name)
                    /\ entry.tiling = TilingNames[tile.tiling + 2]
                    /\ entry.author = unwrap_or(tile.author, "Hempuli")
                    /\ entry.tile_index = IF is_some(tile.tile) THEN tile.tile
                                          ELSE Before(name).tile_index
                    /\ entry.grid_index = IF is_some(tile.grid) THEN tile.grid
                                          ELSE Before(name).grid_index
                    /\ entry.object_id = Before(name).object_id
                    /\ entry.layer = IF is_some(tile.layer) THEN tile.layer
                                     ELSE Before(name).layer
                    /\ entry.tags = Before(name).tags \cup
                                    (IF is_some(tile.tags)
                                     THEN {unwrap(tile.tags)[i] : i \in 1..Len(unwrap(tile.tags))}
                                     ELSE {})]_vars

\* baba was in the database with an object id, a layer and a tag; the editor
\* list gave it a layer, a grid index and two tags but no object id.
C25_Witness ==
    /\ pc = "done" /\ call # None /\ returned = Ok(<<>>)
    /\ "baba" \in DOMAIN db
    /\ db["baba"].object_id = Some("object001")
    /\ db["baba"].layer = Some(18)
    /\ db["baba"].grid_index = Some(<<0, 1>>)
    /\ db["baba"].tags = {"old", "tag1", "tag2"}
    /\ "wall" \in DOMAIN db /\ db["wall"].layer = Some(14)

(***************************************************************************)
(* The kernels of the Meta variant: MetaKernel::of_size.                   *)
(***************************************************************************)
\* The largest kernel size tried.
MaxKernelSize == 20

\* Luma([u8::MAX]) and Luma([0])
Drawn == 255
Cleared == 0

\* GrayImage::from_fn(width, height, f), f given as its table.
GrayImage(width, height, pixels) == [width |-> width, height |-> height, pixels |-> pixels]

\* MetaKernel::of_size
of_size(self, size) ==
    LET center == size
        width == (center * 2) + 1
        draw_pixel(x, y) ==
            CASE self = "Full" -> ~(x = center /\ y = center)
              [] self = "Edge" -> /\ ~(x = center /\ y = center)
                                  /\ ~(x = 0 /\ y = 0)
                                  /\ ~(x = 0 /\ y = width)
                                  /\ ~(x = width /\ y = 0)
                                  /\ ~(x = width /\ y = width)
              [] self = "Unit" -> /\ ~(x = center /\ y = center)
                                  /\ ~(x = 0 /\ y = 0)
                                  /\ ~(x = width /\ y = 0)
    IN  GrayImage(width, width,
                  [p \in (0..(width - 1)) \X (0..(width - 1)) |->
                      IF draw_pixel(p[1], p[2]) THEN Drawn ELSE Cleared])

MetaKernels == {"Full", "Edge", "Unit"}

InitKernel ==
    /\ pc = "ready"
    /\ \E kernel \in MetaKernels, size \in 0..MaxKernelSize : call = <<kernel, size>>
    /\ returned = None
    /\ FramesIdle /\ SolidifyIdle /\ ColorIdle /\ ParseIdle /\ RenderIdle

OfSize ==
    /\ pc = "ready"
    /\ returned' = of_size(call[1], call[2])
    /\ pc' = "done"
    /\ UNCHANGED <<call, framesVars, solidifyVars, colorVars, parseVars, renderVars>>

SpecKernel == InitKernel /\ [][OfSize]_vars

\* The pixels a kernel of a side is to leave unset: the centre, with the
\* four corners for Edge and the two top corners for Unit.
Unset(kernel, side) ==
    LET last == side - 1
        centre == <<last \div 2, last \div 2>>
    IN  CASE kernel = "Full" -> {centre}
          [] kernel = "Edge" -> {centre, <<0, 0>>, <<0, last>>, <<last, 0>>, <<last, last>>}
          [] kernel = "Unit" -> {centre, <<0, 0>>, <<last, 0>>}

\* C26: of_size(size) gives a square of side 2 * size + 1 in which, for
\* every size from 1 on, Full has every pixel set but the centre, Edge every
\* pixel but the centre and the four corners, Unit every pixel but the
\* centre and the two top corners.
C26_KernelShape ==
    (pc = "done" /\ call[2] >= 1) =>
        /\ returned.width = 2 * call[2] + 1 /\ returned.height = returned.width
        /\ DOMAIN returned.pixels = (0..(returned.width - 1)) \X (0..(returned.width - 1))
        /\ {p \in DOMAIN returned.pixels : returned.pixels[p] = Cleared}
              = Unset(call[1], returned.width)
        /\ \A p \in DOMAIN returned.pixels : returned.pixels[p] \in {Cleared, Drawn}

(***************************************************************************)
(* The message of a grammar error: handle_error.                           *)
(***************************************************************************)
\* The most rules in either list of a parsing error.
MaxRules == 3

\* impl Display for Rule
rule_display(rule) ==
    CASE rule = "scene" -> "a scene"
      [] rule = "flags" -> "a list of flags"
      [] rule = "flag" -> "a flag"
      [] rule = "tilemap" -> "a tilemap"
      [] rule = "row" -> "a row"
      [] rule = "stack" -> "a stack"
      [] rule = "anim" -> "an animation cell"
      [] rule \in {"cell", "object"} -> "an object"
      [] rule = "tile" -> "a tile"
      [] rule = "variants" -> "a list of variants"
      [] rule = "variant" -> "a variant"
      [] rule = "vallist" -> "a list of variant arguments"
      [] rule = "flag_name" -> "a name for a flag"
      [] rule = "flag_arg" -> "an argument for a flag"
      [] rule = "var_name" -> "a name for a variant"
      [] rule = "var_arg" -> "a list of arguments for a variant"
      [] rule \in {"value", "blacklist", "ws"} -> "<internal token>"
      [] rule \in {"text", "glyph", "tag"} -> "a tile prefix"
      [] rule = "tile_name" -> "a tile name"
      [] rule = "EOI" -> "the end of the input"

\* [String]::join(", ")
RECURSIVE join(_, _)
join(strings, i) ==
    IF i > Len(strings) THEN ""
    ELSE (IF i > 1 THEN ", " ELSE "") \o strings[i] \o join(strings, i + 1)

\* The inner match of either message of handle_error, on the list `needed`
\* as it is at that point and the count c matched on: Panicked where an
\* index or an unwrap fails, else the text and the list left behind by pop.
listed(needed, c) ==
    IF c = 1
    THEN IF Len(needed) < 1 THEN [panicked |-> TRUE, needed |-> needed]
         ELSE [panicked |-> FALSE, text |-> needed[1], needed |-> needed]
    ELSE IF c = 2
    THEN IF Len(needed) < 2 THEN [panicked |-> TRUE, needed |-> needed]
         ELSE [panicked |-> FALSE, text |-> needed[1] \o " or " \o needed[2],
               needed |-> needed]
    ELSE IF Len(needed) < 1 THEN [panicked |-> TRUE, needed |-> needed]
         ELSE [panicked |-> FALSE,
               text |-> join(SubSeq(needed, 1, Len(needed) - 1), 1)
                            \o ", or " \o needed[Len(needed)],
               needed |-> SubSeq(needed, 1, Len(needed) - 1)]

\* handle_error on ParsingError { positives, negatives }: the message of the
\* CustomError it returns, or a panic.
handle_error(positives, negatives) ==
    LET needed == [i \in 1..Len(positives) |-> rule_display(positives[i])]
        unexpected == [i \in 1..Len(negatives) |-> rule_display(negatives[i])]
        with_unexpected(needed_message, second) ==
            IF second.panicked THEN Panicked
            ELSE Returned(needed_message \o "did not expect " \o second.text \o " here")
        with_needed(first) ==
            IF first.panicked THEN Panicked
            ELSE LET needed_message ==
                         IF Len(needed) = 0 THEN ""
                         ELSE "expected " \o first.text \o " here\n"
                 IN  IF Len(unexpected) = 0 THEN Returned(needed_message)
                     ELSE with_unexpected(needed_message,
                                          listed(first.needed, Len(unexpected)))
    IN  with_needed(IF Len(needed) = 0
                    THEN [panicked |-> FALSE, text |-> "", needed |-> needed]
                    ELSE listed(needed, Len(needed)))

\* Rules a parsing error may name.
ErrorRules == {"flag", "tile", "EOI"}

InitError ==
    /\ pc = "ready"
    /\ \E positives \in SeqsUpTo(ErrorRules, MaxRules),
          negatives \in SeqsUpTo(ErrorRules, MaxRules) : call = <<positives, negatives>>
    /\ returned = None
    /\ FramesIdle /\ SolidifyIdle /\ ColorIdle /\ ParseIdle /\ RenderIdle

HandleError ==
    /\ pc = "ready"
    /\ returned' = handle_error(call[1], call[2])
    /\ pc' = "done"
    /\ UNCHANGED <<call, framesVars, solidifyVars, colorVars, parseVars, renderVars>>

SpecError == InitError /\ [][HandleError]_vars

\* The rules of a list by name: one name, two joined by " or ", three or more
\* by ", " with ", or " before the last.
RECURSIVE Named(_, _)
Named(rules, i) ==
    IF i > Len(rules) THEN ""
    ELSE (IF i = 1 THEN ""
          ELSE IF Len(rules) = 2 THEN " or "
          ELSE IF i = Len(rules) THEN ", or " ELSE ", ")
         \o rule_display(rules[i]) \o Named(rules, i + 1)

\* C27: for a parsing error with any lists of expected and unexpected rules
\* handle_error returns, without panicking, a message whose "expected ...
\* here" part names each expected rule once and whose "did not expect ...
\* here" part names each unexpected rule once.
C27_ErrorMessage ==
    pc = "done" =>
        /\ ~returned.panicked
        /\ returned.value =
              (IF call[1] = <<>> THEN "" ELSE "expected " \o Named(call[1], 1) \o " here\n")
              \o (IF call[2] = <<>> THEN ""
                  ELSE "did not expect " \o Named(call[2], 1) \o " here")

(***************************************************************************)
(* The alias tables: VariantName::from_alias and FlagName::from_alias.     *)
(***************************************************************************)
\* The table of a kind of name.
DataOfKind(kind) == IF kind = "variant" THEN VARIANT_DATA ELSE FLAG_DATA

\* Every alias either table lists, and some that none lists.
Aliases ==
    UNION {{VARIANT_DATA[i].aliases[a] : a \in 1..Len(VARIANT_DATA[i].aliases)} :
              i \in 1..Len(VARIANT_DATA)}
    \cup UNION {{FLAG_DATA[i].aliases[a] : a \in 1..Len(FLAG_DATA[i].aliases)} :
                   i \in 1..Len(FLAG_DATA)}
    \cup {"displac", "D", "dd", "x"}

InitAlias ==
    /\ pc = "ready"
    /\ \E kind \in {"variant", "flag"}, alias \in Aliases : call = <<kind, alias>>
    /\ returned = None
    /\ FramesIdle /\ SolidifyIdle /\ ColorIdle /\ ParseIdle /\ RenderIdle

FromAlias ==
    /\ pc = "ready"
    /\ returned' = from_alias(DataOfKind(call[1]), call[2])
    /\ pc' = "done"
    /\ UNCHANGED <<call, framesVars, solidifyVars, colorVars, parseVars, renderVars>>

SpecAlias == InitAlias /\ [][FromAlias]_vars

\* C29: every alias the table of a kind lists resolves through from_alias to
\* the canonical name it is listed under (so no alias is listed under two
\* names of a kind): every alias of Displace resolves to Displace, every
\* alias of Down to Down.
C29_AliasesResolve ==
    pc = "done" =>
        \A i \in 1..Len(DataOfKind(call[1])) :
            has_alias(DataOfKind(call[1])[i], call[2])
                => returned = Some(DataOfKind(call[1])[i].name)

(***************************************************************************)
(* The surplus stage: Variant::parse and Flag::parse on more tokens than   *)
(* the declared types of the name take.                                    *)
(***************************************************************************)
SurplusTokens == {"2", "x", "u", "full"}

InitSurplus ==
    /\ pc = "ready"
    /\ \/ \E name \in {"l", "s", "f", "m", "disp", "t"},
             args \in SeqsUpTo(SurplusTokens, MaxArgs) :
            call = Some(VariantCall(name, args))
       \/ \E name \in {"b", "tb", "let"}, args \in SeqsUpTo(SurplusTokens, MaxArgs) :
            call = Some(FlagCall(name, args))
    /\ returned = None
    /\ FramesIdle /\ SolidifyIdle /\ ColorIdle /\ ParseIdle /\ RenderIdle

SpecSurplus == InitSurplus /\ [][VariantParse \/ FlagParse]_vars

\* How many of the tokens the declared types read, from the k-th type on
\* with the iterator at next: every type reads its tokens in turn, and the
\* first that fails ends the reading.
RECURSIVE Consumed(_, _, _, _)
Consumed(types, args, k, next) ==
    IF k > Len(types) THEN next - 1
    ELSE LET with_got(got) ==
                 IF got.result.ok THEN Consumed(types, args, k + 1, got.next)
                 ELSE got.next - 1
         IN  with_got(parse_argument(types[k], args, next))

\* The tokens of the call cut to those the declared types read.
CutArguments ==
    SubSeq(unwrap(call).arguments, 1, Consumed(CallTypes, unwrap(call).arguments, 1, 1))

\* C30: Variant::parse and Flag::parse ignore the tokens left over once all
\* declared types are parsed: for every name and list of tokens the result
\* is the result for the list cut to the tokens the declared types read, and
\* surplus tokens raise no error.
C30_SurplusIgnored ==
    is_some(returned) =>
        /\ unwrap(returned) =
              IF unwrap(call).kind = "variant"
              THEN variant_parse(unwrap(call).name, CutArguments)
              ELSE flag_parse(unwrap(call).name, CutArguments)
        /\ FailedTypes(CallTypes, unwrap(call).arguments) = {} => unwrap(returned).ok

\* Left takes no argument and was given two tokens: it parsed to Left.
C30_Witness ==
    /\ is_some(returned)
    /\ unwrap(call).name = "Left" /\ unwrap(call).arguments = <<"2", "x">>
    /\ CutArguments = <<>>
    /\ unwrap(returned) = Ok(Variant("Left", <<>>))

====
